---- MODULE Spec2Model ----
(***************************************************************************)
(* A model of sift (src/main.go): the bubbletea Model, its Update handlers *)
(* and the commands they issue, together with the log file they read.      *)
(*                                                                         *)
(* A log line's text is one of three representative texts:                 *)
(*   "a"  a JSON object such as {"level":"info"}                           *)
(*   "b"  a JSON object such as {"level":"error"}                          *)
(*   "x"  text that is not JSON                                            *)
(* The file is a sequence of such lines; sizes and offsets are counted in  *)
(* lines.  The chunk sizes of the program (1000, 500, 1000) and the lazy   *)
(* loading threshold (100) are scaled down to a few lines.                 *)
(***************************************************************************)
EXTENDS Integers, Sequences, FiniteSets, Bags, TLC

\* ---------------------------------------------------------------- bounds
MaxFilters == 2         \* filters the user keeps in the list
MaxReadAhead == 1       \* lines a bufio.Scanner buffers beyond the last one it returned
MaxChunk == 2           \* chunkSize of a direct loadMoreLines call
MaxLoaderDisk == 5      \* SpecLoader: lines of the file
MaxViewInit == 3        \* SpecView: lines of the file
MaxTailInit == 2        \* SpecTail: lines of the file at startup
MaxTailDisk == 3        \* SpecTail: lines the file grows to
MaxStoreInit == 3       \* SpecStore: lines of the file at startup
MaxStoreDisk == 5       \* SpecStore: lines the file grows to
MaxStoreTicks == 2      \* SpecStore: ticks of the session
MaxEndInit == 4         \* SpecEnd: lines of the file at startup
MaxEndDisk == 5         \* SpecEnd: lines the file grows to
MaxEndTicks == 1        \* SpecEnd: ticks of the session
MaxLazyDisk == 4        \* SpecLazy: lines of the file
MaxGoneInit == 3        \* SpecGone: lines of the file at startup
MaxGoneDisk == 4        \* SpecGone: lines the file grows to
MaxGoneTicks == 2       \* SpecGone: ticks of the session
MaxModesInit == 2       \* SpecModes: lines of the file
MaxQuitInit == 3        \* SpecQuit: lines of the file at startup
MaxQuitDisk == 3        \* SpecQuit: lines the file grows to
MaxQuitTicks == 1       \* SpecQuit: ticks of the session
MaxFilterDisk == 4      \* SpecFilter: lines of the file
MaxFileBytes == 3        \* SpecCalls: bytes of the tailed file
MaxChainDisk == 6        \* SpecChain: lines of the file
MaxMainDisk == 2         \* SpecMain: lines of the file
MaxCallsDisk == 2       \* SpecCalls: lines of the file
MaxEvalDisk == 3        \* SpecEval: lines of the file

\* ------------------------------------------------- scaled program constants
InitialChunkSize == 2       \* const initialChunkSize = 1000
LoadMoreChunkSize == 1      \* const chunkSize = 500 (down / page-down)
LoadToEndChunkSize == 2     \* const chunkSize = 1000 (loadToEndCmd)
LoadTriggerThreshold == 2   \* loadTriggerThreshold := 100
DefaultHeight == 24
DefaultWidth == 80

Contents == {"a", "b", "x"}
Heights == {2, 3}
Widths == {4}
Texts == {"isA", "isB", "bad"}
MaxNumber == 1          \* numbers passed to isTruthy: -MaxNumber..MaxNumber
MaxValueLen == 2        \* length of the strings, slices and maps passed to it
MaxLineLen == 6         \* bytes of a line of the files estimateTotalLines reads
FileLines == {3, 300}   \* lines of those files
SampleSizes == {100, 500}

Min(x, y) == IF x < y THEN x ELSE y
Max(x, y) == IF x > y THEN x ELSE y

\* All sequences over S of length at most n.
SeqsUpTo(S, n) == UNION {[1..k -> S] : k \in 0..n}

\* ------------------------------------------------------------ log lines
\* json.Unmarshal([]byte(rawLine), &jsonData) succeeds.
IsValidJSON(raw) == raw \in {"a", "b"}

\* len(line.RawLine), in columns.
RawLen(raw) == 2

\* The LogLine built from one scanned line.
ParseLine(raw, n) == [LineNumber |-> n, RawLine |-> raw, IsValid |-> IsValidJSON(raw)]

\* The LogLines built from consecutive scanned lines, numbered from first.
NumberLines(raws, first) == [i \in 1..Len(raws) |-> ParseLine(raws[i], first + i - 1)]

\* Capacity of a slice after append grows it from oldCap to hold newLen.
GrowCap(oldCap, newLen) ==
    IF newLen <= oldCap THEN oldCap
    ELSE IF newLen > 2 * oldCap THEN newLen ELSE 2 * oldCap

\* Capacity of a slice built from nil by n appends of one element.
RECURSIVE BuiltCap(_)
BuiltCap(n) == IF n = 0 THEN 0 ELSE GrowCap(BuiltCap(n - 1), n)

\* ---------------------------------------------------------------- gojq
\* gojq.Parse(expression) returns no error.
Compiles(expr) == expr \in {"isA", "isB", "errA"}

\* A Go value as isTruthy sees it: its dynamic type and, for that type, the
\* truth value (0 or 1), the number, or the length of the string, slice or
\* map.  NoResult stands for an iterator that yields nothing.
GoValue(kind, n) == [kind |-> kind, n |-> n]
NoResult == GoValue("none", 0)

\* First value of filter.Query.Run(line.JSONData).  isA is .level == "info",
\* isB is select(.level == "error"), errA is
\* if .level == "info" then error("info") else true end.
RunQuery(expr, raw) ==
    CASE expr = "isA" -> GoValue("bool", IF raw = "a" THEN 1 ELSE 0)
      [] expr = "isB" -> (IF raw = "b" THEN GoValue("map[string]interface{}", 1) ELSE NoResult)
      [] expr = "errA" -> (IF raw = "a" THEN GoValue("error", 0) ELSE GoValue("bool", 1))
      [] OTHER -> GoValue("error", 0)

\* A faulty isTruthy, without the cases for strings, slices and maps.
isTruthyScalars(value) ==
    CASE value.kind = "nil" -> FALSE
      [] value.kind = "bool" -> value.n = 1
      [] value.kind = "int" -> value.n # 0
      [] value.kind = "float64" -> value.n # 0
      [] OTHER -> TRUE
\* isTruthy: nil, then the type switch, then the default.
isTruthy(value) ==
    CASE value.kind = "nil" -> FALSE
      [] value.kind = "bool" -> value.n = 1
      [] value.kind = "int" -> value.n # 0
      [] value.kind = "float64" -> value.n # 0
      [] value.kind = "string" -> value.n # 0
      [] value.kind = "[]interface{}" -> value.n > 0
      [] value.kind = "map[string]interface{}" -> value.n > 0
      [] OTHER -> TRUE

\* A faulty linePassesAllFilters, without the test for invalid lines.
linePassesAllFiltersAnyLine(fs, line) ==
    \A i \in 1..Len(fs) :
        fs[i].Enabled =>
            LET result == RunQuery(fs[i].Expression, line.RawLine)
            IN  result # NoResult /\ result.kind # "error" /\ isTruthy(result)
\* A faulty linePassesAllFilters, without the test for an error result.
linePassesAllFiltersNoErr(fs, line) ==
    /\ line.IsValid
    /\ \A i \in 1..Len(fs) :
        fs[i].Enabled =>
            LET result == RunQuery(fs[i].Expression, line.RawLine)
            IN  result # NoResult /\ isTruthy(result)
linePassesAllFilters(fs, line) ==
    /\ line.IsValid
    /\ \A i \in 1..Len(fs) :
        fs[i].Enabled =>
            LET result == RunQuery(fs[i].Expression, line.RawLine)
            IN  result # NoResult /\ result.kind # "error" /\ isTruthy(result)

\* A faulty applyFilters, which keeps every line.
applyFiltersKeepAll(ls, fs) == ls
\* The value applyFilters stores in m.filteredLines.
applyFilters(ls, fs) ==
    IF Len(fs) = 0 THEN ls
    ELSE SelectSeq(ls, LAMBDA line : linePassesAllFilters(fs, line))

\* A faulty start of applyFilters, which keeps what m.filteredLines held.
filteredLinesKept(fl) == fl
\* m.filteredLines = nil, before the lines that pass are appended to it.
filteredLinesReset(fl) == <<>>

\* What a call m.applyFilters() leaves in m.filteredLines when it held fl.
applyFiltersCall(fl, ls, fs) ==
    IF Len(fs) = 0 THEN ls
    ELSE filteredLinesReset(fl) \o SelectSeq(ls, LAMBDA line : linePassesAllFilters(fs, line))

\* A faulty getVisibleLines, which always returns m.filteredLines.
getVisibleLinesFiltered(ls, fl, fs) == fl
\* getVisibleLines, for the store ls, m.filteredLines fl and the filters fs.
getVisibleLinesOf(ls, fl, fs) == IF Len(fs) = 0 THEN ls ELSE fl

\* Index restorePositionAfterFilter selects in a non-empty visible sequence
\* (0-based): the loop stops at the first entry whose number is the target
\* or above it.
RECURSIVE bestPositionFrom(_, _, _, _)
bestPositionFrom(vis, target, i, best) ==
    IF i > Len(vis) THEN best
    ELSE IF vis[i].LineNumber = target THEN i - 1
    ELSE IF vis[i].LineNumber > target THEN best
    ELSE bestPositionFrom(vis, target, i + 1, i - 1)

bestPosition(vis, target) == bestPositionFrom(vis, target, 1, 0)


\* ------------------------------------------------------------------ state
VARIABLES
    disk,                \* the log file: its complete lines, in order
    hPos,                \* read offset of the handle loadInitialChunk opened
    hClosed,             \* that handle has been closed
    removed,             \* the file was deleted: it cannot be opened by name
    lines,               \* m.lines
    linesCap,            \* cap(m.lines)
    filteredLines,       \* m.filteredLines
    filters,             \* m.filters: <<[Expression, Enabled], ...>>
    cursor,              \* m.cursor
    viewport,            \* m.viewport
    height,              \* m.height
    width,               \* m.width
    lineScrollOffset,    \* m.lineScrollOffset
    fileSize,            \* m.fileSize
    lastLineNum,         \* m.lastLineNum
    filterMode,          \* m.filterMode
    filterInput,         \* m.filterInput ("" or one typed text)
    filterCursorPos,     \* m.filterCursorPos
    filterManageMode,    \* m.filterManageMode
    filterCursor,        \* m.filterCursor
    filterEditMode,      \* m.filterEditMode
    filterEditInput,     \* m.filterEditInput
    filterEditCursorPos, \* m.filterEditCursorPos
    file,                \* m.file: "nil" or "h"
    isFileFullyLoaded,   \* m.isFileFullyLoaded
    loadingMoreLines,    \* m.loadingMoreLines
    showSpinner,         \* m.showSpinner
    tailMode,            \* m.tailMode
    needsInitialTailJump,\* m.needsInitialTailJump
    showPretty,          \* m.showPretty
    showHelp,            \* m.showHelp
    viewMode,            \* m.viewMode
    viewInput,           \* m.viewInput ("" or one typed text)
    viewCursorPos,       \* m.viewCursorPos
    viewExpression,      \* m.viewExpression ("": no view transform)
    loadMoreCmd,         \* the loadMore closure waiting to run, or NoCmd
    inflight,            \* bag of the other commands waiting to run and of
                         \* the messages waiting to be handled
    op,                  \* the handler or command that ran last
    currentLineNumber,   \* the handler's local currentLineNumber
    batch,               \* number of lines the last handler appended
    arg,                 \* argument of the last direct call of a function
    result,              \* what that call returned
    limits,              \* what the environment does in this session: the
                         \* lines the file may grow to, the texts written to
                         \* it, the commands and messages in flight at once
    ticksLeft            \* ticks the session still lasts (-1: no limit)

envVars == <<disk, hPos, hClosed, removed>>
storeVars == <<lines, linesCap, filteredLines, fileSize, lastLineNum>>
posVars == <<cursor, viewport, lineScrollOffset>>
sizeVars == <<height, width>>
entryVars == <<filterMode, filterInput, filterCursorPos>>
manageVars == <<filterManageMode, filterCursor>>
editVars == <<filterEditMode, filterEditInput, filterEditCursorPos>>
loadVars == <<file, isFileFullyLoaded, loadingMoreLines, showSpinner>>
tailVars == <<tailMode, needsInitialTailJump>>
overlayVars == <<showPretty, showHelp, viewMode, viewInput, viewCursorPos, viewExpression>>
cmdVars == <<loadMoreCmd, inflight>>
histVars == <<op, currentLineNumber, batch, arg, result>>
budgetVars == <<limits, ticksLeft>>

vars == <<envVars, storeVars, filters, posVars, sizeVars, entryVars, manageVars,
          editVars, loadVars, tailVars, overlayVars, cmdVars, histVars, budgetVars>>

NoCmd == [n |-> 0, shared |-> FALSE, file |-> "none"]

getVisibleLines == getVisibleLinesOf(lines, filteredLines, filters)

\* Commands and messages in flight.
InFlightCount == BagCardinality(inflight) + (IF loadMoreCmd = NoCmd THEN 0 ELSE 1)
Issue(item) == inflight (+) SetToBag({item})
Take(item) == inflight (-) SetToBag({item})
InFlight(type) == {item \in BagToSet(inflight) : item.type = type}

\* What a handler records about itself.
\* Update returned tea.Quit: the program ends, no further message is handled.
Quitting == InFlight("tea.Quit") # {}

\* The interactive loop runs: main has constructed the Model and has not left
\* through os.Exit.
InLoop == op \notin {"start", "os.Exit"}

Did(name, lineNumber, appended) ==
    /\ ~Quitting
    /\ InLoop
    /\ op' = name
    /\ currentLineNumber' = lineNumber
    /\ batch' = appended
    /\ UNCHANGED <<arg, result>>
    /\ limits' = limits
    /\ ticksLeft' = IF name = "tickMsg" /\ ticksLeft > 0 THEN ticksLeft - 1 ELSE ticksLeft

\* A function was called directly with argument a and returned r.
Called(name, a, r) ==
    /\ ~Quitting
    /\ InLoop
    /\ op' = name
    /\ arg' = a
    /\ result' = r
    /\ UNCHANGED <<currentLineNumber, batch, budgetVars>>

\* viewport after the cursor was put at the bottom ('t', End, newLinesMsg,
\* loadToEndMsg): the last line on the last row above the status bar.
BottomViewport(c, h) == IF c >= h - 1 THEN Max(c - h + 2, 0) ELSE 0

\* A faulty jump to the bottom, which keeps the horizontal scroll.
JumpToBottomKeepScroll(vis) ==
    IF Len(vis) > 0
    THEN /\ cursor' = Len(vis) - 1
         /\ viewport' = BottomViewport(Len(vis) - 1, height)
         /\ UNCHANGED lineScrollOffset
    ELSE UNCHANGED posVars
\* The cursor is put on the last line of the visible sequence vis ("end",
\* "t", newLinesMsg in tail mode, the last loadToEndMsg).
JumpToBottom(vis) ==
    IF Len(vis) > 0
    THEN /\ cursor' = Len(vis) - 1
         /\ viewport' = BottomViewport(Len(vis) - 1, height)
         /\ lineScrollOffset' = 0
    ELSE UNCHANGED posVars

\* viewport after a downward move (down, page-down).
DownViewport(c, v, h) == IF c >= v + h - 1 THEN c - h + 2 ELSE v

\* pageSize of page-up and page-down.
PageSize(h) == IF h - 1 < 1 THEN 1 ELSE h - 1

\* Offsets a handle can be left at by a scanner that started at offset pos of
\* file d and returned `scanned` lines: the scanner reads the file in blocks,
\* so the offset is at or beyond the end of the last line returned.
ReadPositions(d, pos, scanned) ==
    (pos + scanned)..Min(Len(d), pos + scanned + MaxReadAhead)

\* ------------------------------------------------------------------- main
\* Lines loadInitialChunk keeps, and the lines its scanner consumed.
InitialKept(d) == Min(Len(d), InitialChunkSize)
InitialScanned(d) == Min(Len(d), InitialChunkSize + 1)

\* The state main() hands to tea.NewProgram, for a file among `files`, the
\* -t flag among tailFlags and the -f filters among startups.
InitWith(files, tailFlags, startups, lim, ticks) ==
    \E d \in files, tailFlag \in tailFlags, startup \in startups :
        LET loaded == IF tailFlag THEN NumberLines(d, 1)
                      ELSE NumberLines(SubSeq(d, 1, InitialKept(d)), 1)
        IN  /\ disk = d
            /\ hPos \in IF tailFlag THEN {0} ELSE ReadPositions(d, 0, InitialScanned(d))
            /\ hClosed = FALSE
            /\ removed = FALSE
            /\ lines = loaded
            /\ linesCap = BuiltCap(Len(loaded))
            /\ filters = startup
            /\ filteredLines = applyFilters(loaded, startup)
            /\ cursor = 0
            /\ viewport = 0
            /\ height = DefaultHeight
            /\ width = DefaultWidth
            /\ lineScrollOffset = 0
            /\ fileSize = Len(d)
            /\ lastLineNum = Len(loaded)
            /\ filterMode = FALSE
            /\ filterInput = ""
            /\ filterCursorPos = 0
            /\ filterManageMode = FALSE
            /\ filterCursor = 0
            /\ filterEditMode = FALSE
            /\ filterEditInput = ""
            /\ filterEditCursorPos = 0
            /\ file = IF tailFlag THEN "nil" ELSE "h"
            /\ isFileFullyLoaded = (tailFlag \/ Len(loaded) < InitialChunkSize)
            /\ loadingMoreLines = FALSE
            /\ showSpinner = FALSE
            /\ tailMode = tailFlag
            /\ needsInitialTailJump = tailFlag
            /\ showPretty = FALSE
            /\ showHelp = FALSE
            /\ viewMode = FALSE
            /\ viewInput = ""
            /\ viewCursorPos = 0
            /\ viewExpression = ""
            /\ loadMoreCmd = NoCmd
            /\ inflight = EmptyBag
            /\ op = "main"
            /\ currentLineNumber = 0
            /\ batch = 0
            /\ arg = NoResult
            /\ result = NoResult
            /\ limits = lim
            /\ ticksLeft = ticks

\* ------------------------------------------------------------ environment
\* Another process appends one complete line to the log file.
WriteLine ==
    /\ ~removed
    /\ Len(disk) < limits.maxDisk
    /\ \E c \in limits.contents : disk' = Append(disk, c)
    /\ UNCHANGED <<hPos, hClosed, removed, storeVars, filters, posVars, sizeVars, entryVars,
                   manageVars, editVars, loadVars, tailVars, overlayVars, cmdVars>>
    /\ Did("write", 0, 0)

\* The log file is deleted (or made unreadable): the handle already open
\* still reads it, os.Open and os.Stat by name fail from now on.
RemoveFile ==
    /\ ~removed
    /\ removed' = TRUE
    /\ UNCHANGED <<disk, hPos, hClosed, storeVars, filters, posVars, sizeVars, entryVars,
                   manageVars, editVars, loadVars, tailVars, overlayVars, cmdVars>>
    /\ Did("remove", 0, 0)

\* ------------------------------------------------- appends to m.lines
\* m.lines = append(m.lines, new...): in place while the capacity lasts,
\* else into a new array, which the loadMore closure's copy does not share.
appendInPlace(new) == Len(lines) + Len(new) <= linesCap

StoreAppend(new) ==
    /\ lines' = lines \o new
    /\ linesCap' = GrowCap(linesCap, Len(lines) + Len(new))
    /\ loadMoreCmd' = IF appendInPlace(new) \/ loadMoreCmd = NoCmd THEN loadMoreCmd
                      ELSE [loadMoreCmd EXCEPT !.shared = FALSE]


\* ------------------------------------------------------------ tail polling
\* Update, case tickMsg: issue checkForNewLines with the current baseline.
\* (tickCmd is reissued every time, so a tick is always pending.)
TickMsg ==
    /\ ticksLeft # 0
    /\ InFlightCount < limits.maxInFlight
    /\ inflight' = Issue([type |-> "checkForNewLines", currentSize |-> fileSize,
                          lastLineNum |-> lastLineNum])
    /\ UNCHANGED <<envVars, storeVars, filters, posVars, sizeVars, entryVars,
                   manageVars, editVars, loadVars, tailVars, overlayVars, loadMoreCmd>>
    /\ Did("tickMsg", 0, 0)

\* The lines checkForNewLines reads: from the baseline to the end of file.
checkForNewLines(d, currentSize, last) ==
    IF Len(d) <= currentSize THEN <<>>
    ELSE NumberLines(SubSeq(d, currentSize + 1, Len(d)), last + 1)

\* A faulty poll, which marks the store fully loaded when it cannot open the
\* file.
CheckForNewLinesRunMarks ==
    \E c \in InFlight("checkForNewLines") :
        LET newLines == IF removed THEN <<>>
                        ELSE checkForNewLines(disk, c.currentSize, c.lastLineNum)
        IN  /\ inflight' = IF newLines = <<>> THEN Take(c)
                           ELSE Take(c) (+) SetToBag({[type |-> "newLinesMsg",
                                                       newLines |-> newLines]})
            /\ isFileFullyLoaded' = (isFileFullyLoaded \/ removed)
            /\ UNCHANGED <<envVars, storeVars, filters, posVars, sizeVars, entryVars,
                           manageVars, editVars, file, loadingMoreLines, showSpinner,
                           tailVars, overlayVars, loadMoreCmd>>
            /\ Did("checkForNewLines", 0, 0)
\* The command checkForNewLines returned runs: nil (the file cannot be
\* opened, or has not grown) or a newLinesMsg.
CheckForNewLinesRun ==
    \E c \in InFlight("checkForNewLines") :
        LET newLines == IF removed THEN <<>>
                        ELSE checkForNewLines(disk, c.currentSize, c.lastLineNum)
        IN  /\ inflight' = IF newLines = <<>> THEN Take(c)
                           ELSE Take(c) (+) SetToBag({[type |-> "newLinesMsg",
                                                       newLines |-> newLines]})
            /\ UNCHANGED <<envVars, storeVars, filters, posVars, sizeVars, entryVars,
                           manageVars, editVars, loadVars, tailVars, overlayVars, loadMoreCmd>>
            /\ Did("checkForNewLines", 0, 0)

\* Update, case newLinesMsg.
NewLinesMsg ==
    \E msg \in InFlight("newLinesMsg") :
        LET newLines == msg.newLines
            ls == lines \o newLines
            fl == IF Len(filters) > 0 THEN applyFilters(ls, filters) ELSE filteredLines
            vis == getVisibleLinesOf(ls, fl, filters)
        IN  /\ inflight' = Take(msg)
            /\ StoreAppend(newLines)
            /\ lastLineNum' = newLines[Len(newLines)].LineNumber
            /\ filteredLines' = fl
            /\ IF tailMode THEN JumpToBottom(vis) ELSE UNCHANGED posVars
            /\ fileSize' = IF removed THEN fileSize ELSE Len(disk)
            /\ UNCHANGED <<envVars, filters, sizeVars, entryVars, manageVars,
                           editVars, loadVars, tailVars, overlayVars>>
            /\ Did("newLinesMsg", 0, Len(newLines))

\* ------------------------------------------------------------- lazy loading
\* A faulty loadMoreLines, which numbers from len(m.lines).
loadMoreLinesFromLen(d, pos, n, chunkSize) ==
    NumberLines(SubSeq(d, pos + 1, pos + Min(Len(d) - pos, chunkSize)), n)
\* The lines loadMoreLines appends to a model holding n lines, reading from
\* offset pos of file d.
loadMoreLines(d, pos, n, chunkSize) ==
    NumberLines(SubSeq(d, pos + 1, pos + Min(Len(d) - pos, chunkSize)), n + 1)

\* m.lines after the closure's appends went into the array m.lines shares:
\* the entries beyond the closure's length are overwritten.
Overwritten(ls, n, new) ==
    [i \in 1..Len(ls) |-> IF i > n /\ i - n <= Len(new) THEN new[i - n] ELSE ls[i]]

\* The closure issued by down / page-down runs m.loadMoreLines(chunkSize) on
\* its own copy of the model, and returns loadMoreLinesMsg{err}.
LoadMoreLinesRun ==
    /\ loadMoreCmd # NoCmd
    /\ loadMoreCmd' = NoCmd
    /\ IF loadMoreCmd.file = "nil"
       THEN /\ inflight' = Issue([type |-> "loadMoreLinesMsg", err |-> FALSE])
            /\ UNCHANGED <<envVars, lines>>
       ELSE IF hClosed
       THEN /\ inflight' = Issue([type |-> "loadMoreLinesMsg", err |-> TRUE])
            /\ UNCHANGED <<envVars, lines>>
       ELSE LET new == loadMoreLines(disk, hPos, loadMoreCmd.n, LoadMoreChunkSize)
                scanned == Min(Len(disk) - hPos, LoadMoreChunkSize + 1)
            IN  /\ inflight' = Issue([type |-> "loadMoreLinesMsg", err |-> FALSE])
                /\ hPos' \in ReadPositions(disk, hPos, scanned)
                /\ hClosed' = (Len(new) < LoadMoreChunkSize)
                /\ lines' = IF loadMoreCmd.shared
                            THEN Overwritten(lines, loadMoreCmd.n, new)
                            ELSE lines
                /\ UNCHANGED <<disk, removed>>
    /\ UNCHANGED <<linesCap, filteredLines, fileSize, lastLineNum, filters, posVars,
                   sizeVars, entryVars, manageVars, editVars, loadVars, tailVars, overlayVars>>
    /\ Did("loadMoreLines", loadMoreCmd.n,
           IF loadMoreCmd.file = "nil" \/ hClosed THEN 0
           ELSE Len(loadMoreLines(disk, hPos, loadMoreCmd.n, LoadMoreChunkSize)))

\* Update, case loadMoreLinesMsg.
LoadMoreLinesMsg ==
    \E msg \in InFlight("loadMoreLinesMsg") :
        /\ inflight' = Take(msg)
        /\ loadingMoreLines' = FALSE
        /\ IF msg.err
           THEN isFileFullyLoaded' = TRUE /\ UNCHANGED filteredLines
           ELSE /\ UNCHANGED isFileFullyLoaded
                /\ filteredLines' = IF Len(filters) > 0 THEN applyFilters(lines, filters)
                                    ELSE filteredLines
        /\ UNCHANGED <<envVars, lines, linesCap, fileSize, lastLineNum, filters, posVars,
                       sizeVars, entryVars, manageVars, editVars, file, showSpinner,
                       tailVars, overlayVars, loadMoreCmd>>
        /\ Did("loadMoreLinesMsg", 0, 0)

\* ---------------------------------------------------------------- loadToEnd
loadToEndCmd == [type |-> "loadToEndCmd", file |-> file, currentLineCount |-> Len(lines)]

\* The message a loadToEndCmd returns when it reads file d from offset pos.
loadToEndRead(d, pos, count) ==
    IF Len(d) - pos >= LoadToEndChunkSize
    THEN [type |-> "loadToEndMsg", err |-> FALSE, isComplete |-> FALSE,
          newLines |-> NumberLines(SubSeq(d, pos + 1, pos + LoadToEndChunkSize), count + 1)]
    ELSE [type |-> "loadToEndMsg", err |-> FALSE, isComplete |-> TRUE,
          newLines |-> NumberLines(SubSeq(d, pos + 1, Len(d)), count + 1)]

\* A loadToEndCmd runs: on the model's handle when it was given one, else on
\* a handle of its own, opened at the start of the file and moved past the
\* lines already loaded by a first scanner.
LoadToEndRun ==
    \E c \in InFlight("loadToEndCmd") :
        /\ IF c.file = "h"
           THEN IF hClosed
                THEN /\ inflight' = Take(c) (+) SetToBag({[type |-> "loadToEndMsg",
                            err |-> TRUE, isComplete |-> TRUE, newLines |-> <<>>]})
                     /\ UNCHANGED envVars
                ELSE LET msg == loadToEndRead(disk, hPos, c.currentLineCount)
                     IN  /\ inflight' = Take(c) (+) SetToBag({msg})
                         /\ hPos' \in IF msg.isComplete THEN {Len(disk)}
                                      ELSE ReadPositions(disk, hPos, LoadToEndChunkSize)
                         /\ UNCHANGED <<disk, hClosed, removed>>
           ELSE IF removed
           THEN /\ inflight' = Take(c) (+) SetToBag({[type |-> "loadToEndMsg",
                       err |-> TRUE, isComplete |-> TRUE, newLines |-> <<>>]})
                /\ UNCHANGED envVars
           ELSE \E start \in ReadPositions(disk, 0, Min(c.currentLineCount, Len(disk))) :
                    /\ inflight' = Take(c) (+)
                            SetToBag({loadToEndRead(disk, start, c.currentLineCount)})
                    /\ UNCHANGED envVars
        /\ UNCHANGED <<storeVars, filters, posVars, sizeVars, entryVars, manageVars,
                       editVars, loadVars, tailVars, overlayVars, loadMoreCmd>>
        /\ Did("loadToEndCmd", 0, 0)

\* A faulty loadToEndMsg handler, which does not ask for the next batch.
LoadToEndMsgStops ==
    \E msg \in InFlight("loadToEndMsg") :
        LET ls == lines \o msg.newLines
            done == msg.err \/ msg.isComplete
            fl == IF done /\ Len(filters) > 0 THEN applyFilters(ls, filters)
                  ELSE filteredLines
            vis == getVisibleLinesOf(ls, fl, filters)
        IN  /\ StoreAppend(msg.newLines)
            /\ lastLineNum' = IF Len(msg.newLines) > 0
                              THEN msg.newLines[Len(msg.newLines)].LineNumber
                              ELSE lastLineNum
            /\ filteredLines' = fl
            /\ UNCHANGED <<disk, hPos, removed, fileSize, loadingMoreLines>>
            /\ IF done
               THEN /\ isFileFullyLoaded' = TRUE
                    /\ showSpinner' = FALSE
                    /\ hClosed' = (hClosed \/ file = "h")
                    /\ file' = "nil"
                    /\ JumpToBottom(vis)
                    /\ inflight' = Take(msg)
               ELSE /\ inflight' = Take(msg)
                    /\ UNCHANGED <<hClosed, file, isFileFullyLoaded, showSpinner, posVars>>
            /\ UNCHANGED <<filters, sizeVars, entryVars, manageVars, editVars, tailVars, overlayVars>>
            /\ Did("loadToEndMsg", 0, Len(msg.newLines))
\* Update, case loadToEndMsg.
LoadToEndMsg ==
    \E msg \in InFlight("loadToEndMsg") :
        LET ls == lines \o msg.newLines
            done == msg.err \/ msg.isComplete
            fl == IF done /\ Len(filters) > 0 THEN applyFilters(ls, filters)
                  ELSE filteredLines
            vis == getVisibleLinesOf(ls, fl, filters)
        IN  /\ StoreAppend(msg.newLines)
            /\ lastLineNum' = IF Len(msg.newLines) > 0
                              THEN msg.newLines[Len(msg.newLines)].LineNumber
                              ELSE lastLineNum
            /\ filteredLines' = fl
            /\ UNCHANGED <<disk, hPos, removed, fileSize, loadingMoreLines>>
            /\ IF done
               THEN /\ isFileFullyLoaded' = TRUE
                    /\ showSpinner' = FALSE
                    /\ hClosed' = (hClosed \/ file = "h")
                    /\ file' = "nil"
                    /\ JumpToBottom(vis)
                    /\ inflight' = Take(msg)
               ELSE /\ inflight' = Take(msg) (+) SetToBag({[type |-> "loadToEndCmd",
                            file |-> file, currentLineCount |-> Len(ls)]})
                    /\ UNCHANGED <<hClosed, file, isFileFullyLoaded, showSpinner, posVars>>
            /\ UNCHANGED <<filters, sizeVars, entryVars, manageVars, editVars, tailVars, overlayVars>>
            /\ Did("loadToEndMsg", 0, Len(msg.newLines))


\* ------------------------------------------------------------- window size
\* A faulty WindowSizeMsg handler, which keeps the initial tail jump queued.
WindowSizeMsgRepeat ==
    \E h \in Heights, w \in Widths :
        LET vis == getVisibleLines
        IN  /\ height' = h
            /\ width' = w
            /\ IF needsInitialTailJump /\ Len(vis) > 0
               THEN /\ cursor' = Len(vis) - 1
                    /\ viewport' = IF Len(vis) > h - 1 THEN Len(vis) - (h - 1) ELSE 0
                    /\ lineScrollOffset' = 0
               ELSE UNCHANGED posVars
            /\ UNCHANGED <<envVars, storeVars, filters, entryVars, manageVars, editVars,
                           loadVars, tailVars, overlayVars, cmdVars>>
            /\ Did("WindowSizeMsg", 0, 0)
\* Update, case tea.WindowSizeMsg.
WindowSizeMsg ==
    \E h \in Heights, w \in Widths :
        LET vis == getVisibleLines
        IN  /\ height' = h
            /\ width' = w
            /\ IF needsInitialTailJump /\ Len(vis) > 0
               THEN /\ cursor' = Len(vis) - 1
                    /\ viewport' = IF Len(vis) > h - 1 THEN Len(vis) - (h - 1) ELSE 0
                    /\ lineScrollOffset' = 0
               ELSE UNCHANGED posVars
            /\ needsInitialTailJump' = FALSE
            /\ UNCHANGED <<envVars, storeVars, filters, entryVars, manageVars, editVars,
                           loadVars, tailMode, overlayVars, cmdVars>>
            /\ Did("WindowSizeMsg", 0, 0)

\* --------------------------------------------------------- normal-mode keys
NormalMode == ~filterEditMode /\ ~filterMode /\ ~filterManageMode /\ ~viewMode

\* The lazy-loading test of down and page-down, with the cursor already moved.
loadTrigger(c) ==
    ~isFileFullyLoaded /\ ~loadingMoreLines /\ Len(lines) - c <= LoadTriggerThreshold

\* down / page-down return the loadMore closure: it captures the model.
IssueLoadMore ==
    /\ InFlightCount < limits.maxInFlight
    /\ loadingMoreLines' = TRUE
    /\ loadMoreCmd' = [n |-> Len(lines), shared |-> TRUE,
                       file |-> file]

\* A faulty "up" that always pulls the window to its lowest offset, which
\* keeps the selection on the last row.
KeyUpToMinimum ==
    /\ NormalMode /\ ~showHelp /\ ~showPretty
    /\ IF cursor > 0
       THEN /\ cursor' = cursor - 1
            /\ viewport' = Max(0, cursor - 1 - height + 2)
       ELSE UNCHANGED <<cursor, viewport>>
    /\ lineScrollOffset' = 0
    /\ UNCHANGED <<envVars, storeVars, filters, sizeVars, entryVars, manageVars,
                   editVars, loadVars, tailVars, overlayVars, cmdVars>>
    /\ Did("up", 0, 0)
\* Key "up" / "k".
KeyUp ==
    /\ NormalMode /\ ~showHelp /\ ~showPretty
    /\ IF cursor > 0
       THEN /\ cursor' = cursor - 1
            /\ viewport' = IF cursor - 1 < viewport THEN cursor - 1 ELSE viewport
       ELSE UNCHANGED <<cursor, viewport>>
    /\ lineScrollOffset' = 0
    /\ UNCHANGED <<envVars, storeVars, filters, sizeVars, entryVars, manageVars,
                   editVars, loadVars, tailVars, overlayVars, cmdVars>>
    /\ Did("up", 0, 0)

\* Key "down" / "j".
KeyDown ==
    /\ NormalMode /\ ~showHelp /\ ~showPretty
    /\ IF cursor < Len(getVisibleLines) - 1
       THEN /\ cursor' = cursor + 1
            /\ viewport' = DownViewport(cursor + 1, viewport, height)
            /\ IF loadTrigger(cursor + 1)
               THEN IssueLoadMore /\ UNCHANGED lineScrollOffset
               ELSE /\ lineScrollOffset' = 0
                    /\ UNCHANGED <<loadingMoreLines, loadMoreCmd>>
       ELSE /\ lineScrollOffset' = 0
            /\ UNCHANGED <<cursor, viewport, loadingMoreLines, loadMoreCmd>>
    /\ UNCHANGED <<envVars, storeVars, filters, sizeVars, entryVars, manageVars, editVars,
                   file, isFileFullyLoaded, showSpinner, tailVars, overlayVars, inflight>>
    /\ Did("down", 0, 0)

\* Key "pgup".
KeyPgUp ==
    /\ NormalMode /\ ~showHelp /\ ~showPretty
    /\ IF Len(getVisibleLines) > 0
       THEN LET c == Max(cursor - PageSize(height), 0)
            IN  /\ cursor' = c
                /\ viewport' = IF c < viewport THEN c ELSE viewport
       ELSE UNCHANGED <<cursor, viewport>>
    /\ lineScrollOffset' = 0
    /\ UNCHANGED <<envVars, storeVars, filters, sizeVars, entryVars, manageVars,
                   editVars, loadVars, tailVars, overlayVars, cmdVars>>
    /\ Did("pgup", 0, 0)

\* Key "pgdn".
KeyPgDown ==
    /\ NormalMode /\ ~showHelp /\ ~showPretty
    /\ IF Len(getVisibleLines) > 0
       THEN LET c == Min(cursor + PageSize(height), Len(getVisibleLines) - 1)
            IN  /\ cursor' = c
                /\ viewport' = DownViewport(c, viewport, height)
                /\ IF loadTrigger(c)
                   THEN IssueLoadMore /\ UNCHANGED lineScrollOffset
                   ELSE /\ lineScrollOffset' = 0
                        /\ UNCHANGED <<loadingMoreLines, loadMoreCmd>>
       ELSE /\ lineScrollOffset' = 0
            /\ UNCHANGED <<cursor, viewport, loadingMoreLines, loadMoreCmd>>
    /\ UNCHANGED <<envVars, storeVars, filters, sizeVars, entryVars, manageVars, editVars,
                   file, isFileFullyLoaded, showSpinner, tailVars, overlayVars, inflight>>
    /\ Did("pgdn", 0, 0)

\* Key "home".
KeyHome ==
    /\ NormalMode /\ ~showPretty
    /\ cursor' = 0
    /\ viewport' = 0
    /\ lineScrollOffset' = 0
    /\ UNCHANGED <<envVars, storeVars, filters, sizeVars, entryVars, manageVars,
                   editVars, loadVars, tailVars, overlayVars, cmdVars>>
    /\ Did("home", 0, 0)

\* Key "end".
KeyEnd ==
    /\ NormalMode /\ ~showPretty
    /\ IF ~isFileFullyLoaded
       THEN /\ InFlightCount < limits.maxInFlight
            /\ showSpinner' = TRUE
            /\ inflight' = Issue(loadToEndCmd)
            /\ UNCHANGED posVars
       ELSE /\ JumpToBottom(getVisibleLines)
            /\ UNCHANGED <<showSpinner, inflight>>
    /\ UNCHANGED <<envVars, storeVars, filters, sizeVars, entryVars, manageVars, editVars,
                   file, isFileFullyLoaded, loadingMoreLines, tailVars, overlayVars,
                   loadMoreCmd>>
    /\ Did("end", 0, 0)

\* A faulty "t", which never loads the rest of the file.
KeyTNoLoad ==
    /\ NormalMode /\ ~showPretty
    /\ tailMode' = ~tailMode
    /\ IF ~tailMode THEN JumpToBottom(getVisibleLines) ELSE UNCHANGED posVars
    /\ UNCHANGED <<envVars, storeVars, filters, sizeVars, entryVars, manageVars, editVars,
                   loadVars, needsInitialTailJump, overlayVars, cmdVars>>
    /\ Did("t", 0, 0)
\* Key "t".
KeyT ==
    /\ NormalMode /\ ~showPretty
    /\ tailMode' = ~tailMode
    /\ IF ~tailMode /\ ~isFileFullyLoaded
       THEN /\ InFlightCount < limits.maxInFlight
            /\ showSpinner' = TRUE
            /\ inflight' = Issue(loadToEndCmd)
            /\ UNCHANGED posVars
       ELSE /\ IF ~tailMode THEN JumpToBottom(getVisibleLines) ELSE UNCHANGED posVars
            /\ UNCHANGED <<showSpinner, inflight>>
    /\ UNCHANGED <<envVars, storeVars, filters, sizeVars, entryVars, manageVars, editVars,
                   file, isFileFullyLoaded, loadingMoreLines, needsInitialTailJump,
                   overlayVars, loadMoreCmd>>
    /\ Did("t", 0, 0)

\* Key "left".
KeyLeft ==
    /\ NormalMode /\ ~showPretty
    /\ lineScrollOffset' = IF lineScrollOffset > 0 THEN lineScrollOffset - 1
                           ELSE lineScrollOffset
    /\ UNCHANGED <<envVars, storeVars, filters, cursor, viewport, sizeVars, entryVars,
                   manageVars, editVars, loadVars, tailVars, overlayVars, cmdVars>>
    /\ Did("left", 0, 0)

\* Key "right".
KeyRight ==
    /\ NormalMode /\ ~showPretty
    /\ LET vis == getVisibleLines
           maxWidth == width - 3
       IN  lineScrollOffset' =
               IF /\ cursor < Len(vis)
                  /\ RawLen(vis[cursor + 1].RawLine) > maxWidth
                  /\ lineScrollOffset < RawLen(vis[cursor + 1].RawLine) - maxWidth
               THEN lineScrollOffset + 1
               ELSE lineScrollOffset
    /\ UNCHANGED <<envVars, storeVars, filters, cursor, viewport, sizeVars, entryVars,
                   manageVars, editVars, loadVars, tailVars, overlayVars, cmdVars>>
    /\ Did("right", 0, 0)

\* Key "f": enter filter input mode.
KeyF ==
    /\ NormalMode /\ ~showPretty
    /\ filterMode' = TRUE
    /\ filterInput' = ""
    /\ filterCursorPos' = 0
    /\ UNCHANGED <<envVars, storeVars, filters, posVars, sizeVars, manageVars, editVars,
                   loadVars, tailVars, overlayVars, cmdVars>>
    /\ Did("f", 0, 0)

\* Key "F": enter filter management mode.
KeyShiftF ==
    /\ NormalMode /\ ~showPretty
    /\ filterManageMode' = TRUE
    /\ filterCursor' = 0
    /\ UNCHANGED <<envVars, storeVars, filters, posVars, sizeVars, entryVars, editVars,
                   loadVars, tailVars, overlayVars, cmdVars>>
    /\ Did("F", 0, 0)


\* ------------------------------------------------------ filter mutations
\* var currentLineNumber int; if m.cursor < len(visibleLines) { ... }
selectedLineNumber ==
    IF cursor < Len(getVisibleLines) THEN getVisibleLines[cursor + 1].LineNumber ELSE 0

\* viewport restorePositionAfterFilter leaves for cursor c.
restoreViewport(c, v, h) ==
    IF c < v THEN c
    ELSE IF c >= v + h - 1 THEN Max(c - h + 2, 0)
    ELSE v

\* m.applyFilters() followed by m.restorePositionAfterFilter(target), after
\* the filter list became fs.
restorePositionAfterFilter(vis, target) ==
    IF Len(vis) = 0 THEN 0 ELSE bestPosition(vis, target)

FilterMutation(fs, target) ==
    LET fl == applyFilters(lines, fs)
        vis == getVisibleLinesOf(lines, fl, fs)
        c == restorePositionAfterFilter(vis, target)
    IN  /\ filters' = fs
        /\ filteredLines' = fl
        /\ cursor' = c
        /\ viewport' = IF Len(vis) = 0 THEN 0 ELSE restoreViewport(c, viewport, height)
        /\ lineScrollOffset' = 0

\* -------------------------------------------------------- filter input mode
InFilterMode == filterMode /\ ~filterEditMode

\* Key "esc" in filter input mode.
FilterEsc ==
    /\ InFilterMode
    /\ filterMode' = FALSE
    /\ filterInput' = ""
    /\ filterCursorPos' = 0
    /\ UNCHANGED <<envVars, storeVars, filters, posVars, sizeVars, manageVars, editVars,
                   loadVars, tailVars, overlayVars, cmdVars>>
    /\ Did("esc", 0, 0)

\* Key "ctrl+v" in filter input mode, on an empty input: the clipboard text
\* becomes the input.
FilterPaste ==
    /\ InFilterMode
    /\ filterInput = ""
    /\ \E text \in Texts : filterInput' = text
    /\ filterCursorPos' = filterCursorPos + 1
    /\ UNCHANGED <<envVars, storeVars, filters, posVars, sizeVars, filterMode, manageVars,
                   editVars, loadVars, tailVars, overlayVars, cmdVars>>
    /\ Did("ctrl+v", 0, 0)

\* m.addFilter(expression): the list it leaves.
addFilter(fs, expression) == Append(fs, [Expression |-> expression, Enabled |-> TRUE])

\* Key "enter" in filter input mode.
FilterEnter ==
    /\ InFilterMode
    /\ IF filterInput # "" /\ Compiles(filterInput)
       THEN /\ Len(filters) < MaxFilters
            /\ FilterMutation(addFilter(filters, filterInput), selectedLineNumber)
            /\ Did("filterAdd", selectedLineNumber, 0)
       ELSE /\ UNCHANGED <<filters, filteredLines, posVars>>
            /\ IF filterInput # "" THEN Did("compileFailed", selectedLineNumber, 0)
               ELSE Did("enter", 0, 0)
    /\ filterMode' = FALSE
    /\ filterInput' = ""
    /\ filterCursorPos' = 0
    /\ UNCHANGED <<envVars, lines, linesCap, fileSize, lastLineNum, sizeVars, manageVars,
                   editVars, loadVars, tailVars, overlayVars, cmdVars>>

\* --------------------------------------------------- filter management mode
InManageMode == filterManageMode /\ ~filterMode /\ ~filterEditMode

\* Key "esc" / "F" in filter management mode.
ManageEsc ==
    /\ InManageMode
    /\ filterManageMode' = FALSE
    /\ filterCursor' = 0
    /\ UNCHANGED <<envVars, storeVars, filters, posVars, sizeVars, entryVars, editVars,
                   loadVars, tailVars, overlayVars, cmdVars>>
    /\ Did("esc", 0, 0)

\* Key "up" / "k" in filter management mode.
ManageUp ==
    /\ InManageMode
    /\ filterCursor > 0
    /\ filterCursor' = filterCursor - 1
    /\ UNCHANGED <<envVars, storeVars, filters, posVars, sizeVars, entryVars,
                   filterManageMode, editVars, loadVars, tailVars, overlayVars, cmdVars>>
    /\ Did("up", 0, 0)

\* Key "down" / "j" in filter management mode.
ManageDown ==
    /\ InManageMode
    /\ filterCursor < Len(filters) - 1
    /\ filterCursor' = filterCursor + 1
    /\ UNCHANGED <<envVars, storeVars, filters, posVars, sizeVars, entryVars,
                   filterManageMode, editVars, loadVars, tailVars, overlayVars, cmdVars>>
    /\ Did("down", 0, 0)

\* Key "enter" / " " in filter management mode: toggle the filter.
ManageToggle ==
    /\ InManageMode
    /\ filterCursor < Len(filters)
    /\ FilterMutation([filters EXCEPT ![filterCursor + 1].Enabled = ~@], selectedLineNumber)
    /\ UNCHANGED <<envVars, lines, linesCap, fileSize, lastLineNum, sizeVars, entryVars,
                   manageVars, editVars, loadVars, tailVars, overlayVars, cmdVars>>
    /\ Did("filterToggle", selectedLineNumber, 0)

\* The list without its i-th filter (0-based).
RemoveAt(fs, i) == SubSeq(fs, 1, i) \o SubSeq(fs, i + 2, Len(fs))

\* A faulty delete, which leaves the cursor where the deleted filter was.
ManageDeleteNoClamp ==
    /\ InManageMode
    /\ filterCursor < Len(filters)
    /\ LET fs == RemoveAt(filters, filterCursor)
       IN  /\ FilterMutation(fs, selectedLineNumber)
           /\ filterCursor' = filterCursor
    /\ UNCHANGED <<envVars, lines, linesCap, fileSize, lastLineNum, sizeVars, entryVars,
                   filterManageMode, editVars, loadVars, tailVars, overlayVars, cmdVars>>
    /\ Did("filterDelete", selectedLineNumber, 0)
\* Key "d" / "x" in filter management mode: delete the filter.
ManageDelete ==
    /\ InManageMode
    /\ filterCursor < Len(filters)
    /\ LET fs == RemoveAt(filters, filterCursor)
       IN  /\ FilterMutation(fs, selectedLineNumber)
           /\ filterCursor' = IF filterCursor >= Len(fs) /\ Len(fs) > 0 THEN Len(fs) - 1
                              ELSE filterCursor
    /\ UNCHANGED <<envVars, lines, linesCap, fileSize, lastLineNum, sizeVars, entryVars,
                   filterManageMode, editVars, loadVars, tailVars, overlayVars, cmdVars>>
    /\ Did("filterDelete", selectedLineNumber, 0)

\* Key "e" in filter management mode: edit the filter.
ManageEdit ==
    /\ InManageMode
    /\ filterCursor < Len(filters)
    /\ filterEditMode' = TRUE
    /\ filterEditInput' = filters[filterCursor + 1].Expression
    /\ filterEditCursorPos' = 1
    /\ UNCHANGED <<envVars, storeVars, filters, posVars, sizeVars, entryVars, manageVars,
                   loadVars, tailVars, overlayVars, cmdVars>>
    /\ Did("e", 0, 0)

\* --------------------------------------------------------- filter edit mode
\* Key "esc" in filter edit mode.
EditEsc ==
    /\ filterEditMode
    /\ filterEditMode' = FALSE
    /\ filterEditInput' = ""
    /\ filterEditCursorPos' = 0
    /\ UNCHANGED <<envVars, storeVars, filters, posVars, sizeVars, entryVars, manageVars,
                   loadVars, tailVars, overlayVars, cmdVars>>
    /\ Did("esc", 0, 0)

\* Key "home" / "ctrl+a" in filter edit mode.
EditHome ==
    /\ filterEditMode
    /\ filterEditCursorPos # 0
    /\ filterEditCursorPos' = 0
    /\ UNCHANGED <<envVars, storeVars, filters, posVars, sizeVars, entryVars, manageVars,
                   filterEditMode, filterEditInput, loadVars, tailVars, overlayVars,
                   cmdVars>>
    /\ Did("home", 0, 0)

\* Key "ctrl+k" in filter edit mode with the cursor at the start: the input
\* is emptied.
EditKill ==
    /\ filterEditMode
    /\ filterEditCursorPos = 0
    /\ filterEditInput # ""
    /\ filterEditInput' = ""
    /\ UNCHANGED <<envVars, storeVars, filters, posVars, sizeVars, entryVars, manageVars,
                   filterEditMode, filterEditCursorPos, loadVars, tailVars, overlayVars,
                   cmdVars>>
    /\ Did("ctrl+k", 0, 0)

\* Key "ctrl+v" in filter edit mode, on an empty input.
EditPaste ==
    /\ filterEditMode
    /\ filterEditInput = ""
    /\ \E text \in Texts : filterEditInput' = text
    /\ filterEditCursorPos' = filterEditCursorPos + 1
    /\ UNCHANGED <<envVars, storeVars, filters, posVars, sizeVars, entryVars, manageVars,
                   filterEditMode, loadVars, tailVars, overlayVars, cmdVars>>
    /\ Did("ctrl+v", 0, 0)

\* Key "enter" in filter edit mode.
EditEnter ==
    /\ filterEditMode
    /\ IF filterEditInput # "" /\ Compiles(filterEditInput)
       THEN /\ FilterMutation([filters EXCEPT ![filterCursor + 1].Expression =
                                                    filterEditInput],
                              selectedLineNumber)
            /\ Did("filterEdit", selectedLineNumber, 0)
       ELSE /\ UNCHANGED <<filters, filteredLines, posVars>>
            /\ IF filterEditInput # "" THEN Did("compileFailed", selectedLineNumber, 0)
               ELSE Did("enter", 0, 0)
    /\ filterEditMode' = FALSE
    /\ filterEditInput' = ""
    /\ filterEditCursorPos' = 0
    /\ UNCHANGED <<envVars, lines, linesCap, fileSize, lastLineNum, sizeVars, entryVars,
                   manageVars, loadVars, tailVars, overlayVars, cmdVars>>


\* ------------------------------------------------------ view transform mode
\* A faulty "v", which also moves the cursor to the first line.
KeyVToTop ==
    /\ NormalMode /\ ~showPretty
    /\ viewMode' = TRUE
    /\ viewInput' = viewExpression
    /\ viewCursorPos' = IF viewExpression = "" THEN 0 ELSE 1
    /\ cursor' = 0
    /\ viewport' = 0
    /\ UNCHANGED <<envVars, storeVars, filters, lineScrollOffset, sizeVars, entryVars,
                   manageVars, editVars, loadVars, tailVars, showPretty, showHelp,
                   viewExpression, cmdVars>>
    /\ Did("v", 0, 0)
\* Key "v" / "V": enter view transform mode, the input pre-filled with the
\* current expression.
KeyV ==
    /\ NormalMode /\ ~showPretty
    /\ viewMode' = TRUE
    /\ viewInput' = viewExpression
    /\ viewCursorPos' = IF viewExpression = "" THEN 0 ELSE 1
    /\ UNCHANGED <<envVars, storeVars, filters, posVars, sizeVars, entryVars, manageVars,
                   editVars, loadVars, tailVars, showPretty, showHelp, viewExpression,
                   cmdVars>>
    /\ Did("v", 0, 0)

InViewMode == viewMode /\ ~filterEditMode /\ ~filterMode /\ ~filterManageMode

\* Key "esc" in view transform mode.
ViewEsc ==
    /\ InViewMode
    /\ viewMode' = FALSE
    /\ viewInput' = ""
    /\ viewCursorPos' = 0
    /\ UNCHANGED <<envVars, storeVars, filters, posVars, sizeVars, entryVars, manageVars,
                   editVars, loadVars, tailVars, showPretty, showHelp, viewExpression,
                   cmdVars>>
    /\ Did("esc", 0, 0)

\* Key "home" / "ctrl+a" in view transform mode.
ViewHome ==
    /\ InViewMode
    /\ viewCursorPos # 0
    /\ viewCursorPos' = 0
    /\ UNCHANGED <<envVars, storeVars, filters, posVars, sizeVars, entryVars, manageVars,
                   editVars, loadVars, tailVars, showPretty, showHelp, viewMode, viewInput,
                   viewExpression, cmdVars>>
    /\ Did("home", 0, 0)

\* Key "ctrl+k" in view transform mode with the cursor at the start: the
\* input is emptied.
ViewKill ==
    /\ InViewMode
    /\ viewCursorPos = 0
    /\ viewInput # ""
    /\ viewInput' = ""
    /\ UNCHANGED <<envVars, storeVars, filters, posVars, sizeVars, entryVars, manageVars,
                   editVars, loadVars, tailVars, showPretty, showHelp, viewMode,
                   viewCursorPos, viewExpression, cmdVars>>
    /\ Did("ctrl+k", 0, 0)

\* Key "ctrl+v" in view transform mode, on an empty input.
ViewPaste ==
    /\ InViewMode
    /\ viewInput = ""
    /\ \E text \in Texts : viewInput' = text
    /\ viewCursorPos' = viewCursorPos + 1
    /\ UNCHANGED <<envVars, storeVars, filters, posVars, sizeVars, entryVars, manageVars,
                   editVars, loadVars, tailVars, showPretty, showHelp, viewMode,
                   viewExpression, cmdVars>>
    /\ Did("ctrl+v", 0, 0)

\* A faulty "enter" of view transform mode, which takes the expression
\* without compiling it.
ViewEnterUnchecked ==
    /\ InViewMode
    /\ viewExpression' = viewInput
    /\ viewMode' = FALSE
    /\ viewInput' = ""
    /\ viewCursorPos' = 0
    /\ UNCHANGED <<envVars, storeVars, filters, posVars, sizeVars, entryVars, manageVars,
                   editVars, loadVars, tailVars, showPretty, showHelp, cmdVars>>
    /\ IF viewInput # "" /\ ~Compiles(viewInput) THEN Did("compileFailed", 0, 0)
       ELSE Did("viewSet", 0, 0)
\* Key "enter" in view transform mode: a text that compiles becomes the view
\* transform, the empty text clears it, any other text is ignored.
ViewEnter ==
    /\ InViewMode
    /\ viewExpression' = IF viewInput = "" \/ Compiles(viewInput) THEN viewInput
                         ELSE viewExpression
    /\ viewMode' = FALSE
    /\ viewInput' = ""
    /\ viewCursorPos' = 0
    /\ UNCHANGED <<envVars, storeVars, filters, posVars, sizeVars, entryVars, manageVars,
                   editVars, loadVars, tailVars, showPretty, showHelp, cmdVars>>
    /\ IF viewInput # "" /\ ~Compiles(viewInput) THEN Did("compileFailed", 0, 0)
       ELSE Did("viewSet", 0, 0)

\* ------------------------------------------------------- overlays and quit
\* Key "h": toggle the help screen.
KeyH ==
    /\ NormalMode /\ ~showPretty
    /\ showHelp' = ~showHelp
    /\ UNCHANGED <<envVars, storeVars, filters, posVars, sizeVars, entryVars, manageVars,
                   editVars, loadVars, tailVars, showPretty, viewMode, viewInput,
                   viewCursorPos, viewExpression, cmdVars>>
    /\ Did("h", 0, 0)

\* Key "enter" / " ": nothing while the help screen is open; else close the
\* detail view, or open it on the selected line.
KeyEnter ==
    /\ NormalMode
    /\ showPretty' = IF showHelp THEN showPretty
                     ELSE IF showPretty THEN FALSE
                     ELSE cursor < Len(getVisibleLines)
    /\ UNCHANGED <<envVars, storeVars, filters, posVars, sizeVars, entryVars, manageVars,
                   editVars, loadVars, tailVars, showHelp, viewMode, viewInput,
                   viewCursorPos, viewExpression, cmdVars>>
    /\ Did("enter", 0, 0)

\* m.cleanup() followed by return m, tea.Quit.
CleanupAndQuit ==
    /\ hClosed' = (hClosed \/ file = "h")
    /\ file' = "nil"
    /\ inflight' = Issue([type |-> "tea.Quit"])
    /\ UNCHANGED <<disk, hPos, removed, storeVars, filters, posVars, sizeVars, entryVars,
                   manageVars, editVars, isFileFullyLoaded, loadingMoreLines, showSpinner,
                   tailVars, overlayVars, loadMoreCmd>>

\* A faulty "esc", which quits whatever is open.
KeyEscQuits ==
    /\ NormalMode
    /\ CleanupAndQuit
    /\ Did("esc", 0, 0)
\* Key "esc": close the help screen, else close the detail view, else quit.
KeyEsc ==
    /\ NormalMode
    /\ IF showHelp \/ showPretty
       THEN /\ showHelp' = FALSE
            /\ showPretty' = (showHelp /\ showPretty)
            /\ UNCHANGED <<envVars, storeVars, filters, posVars, sizeVars, entryVars,
                           manageVars, editVars, loadVars, tailVars, viewMode, viewInput,
                           viewCursorPos, viewExpression, cmdVars>>
       ELSE CleanupAndQuit
    /\ Did("esc", 0, 0)

\* Key "q" / "ctrl+c": quit.
KeyQ ==
    /\ NormalMode
    /\ CleanupAndQuit
    /\ Did("q", 0, 0)

\* Update, case spinnerTickMsg while the spinner is shown: the next frame
\* (not modelled) and the next spinner tick.
SpinnerTickMsg ==
    /\ showSpinner
    /\ UNCHANGED <<envVars, storeVars, filters, posVars, sizeVars, entryVars, manageVars,
                   editVars, loadVars, tailVars, overlayVars, cmdVars>>
    /\ Did("spinnerTickMsg", 0, 0)


\* ------------------------------------------------------- loadMoreLines, called
\* m.loadMoreLines(chunkSize) called on the model itself, as the tests do.
LoadMoreLinesCall ==
    /\ file # "nil" /\ ~isFileFullyLoaded
    /\ ~hClosed
    /\ \E chunkSize \in 1..MaxChunk :
        LET new == loadMoreLines(disk, hPos, Len(lines), chunkSize)
            scanned == Min(Len(disk) - hPos, chunkSize + 1)
        IN  /\ StoreAppend(new)
            /\ hPos' \in ReadPositions(disk, hPos, scanned)
            /\ isFileFullyLoaded' = (Len(new) < chunkSize)
            /\ hClosed' = (Len(new) < chunkSize)
            /\ file' = IF Len(new) < chunkSize THEN "nil" ELSE file
            /\ lastLineNum' = IF Len(lines \o new) > 0
                              THEN (lines \o new)[Len(lines \o new)].LineNumber
                              ELSE lastLineNum
            /\ Did("loadMoreLines", 0, Len(new))
    /\ UNCHANGED <<disk, removed, filteredLines, fileSize, filters, posVars, sizeVars,
                   entryVars, manageVars, editVars, loadingMoreLines, showSpinner,
                   tailVars, overlayVars, inflight>>

\* The values isTruthy is called with: what gojq yields (nil, bool, int,
\* float64, *big.Int for integers beyond int, string, slice, map) and, as in
\* the tests, a value of another type (struct{}).
Values ==
    {GoValue("nil", 0), GoValue("struct{}", 0), GoValue("*big.Int", MaxNumber + 1)}
    \cup {GoValue("bool", n) : n \in {0, 1}}
    \cup {GoValue(kind, n) : kind \in {"int", "float64"}, n \in -MaxNumber..MaxNumber}
    \cup {GoValue(kind, n) : kind \in {"string", "[]interface{}", "map[string]interface{}"},
                             n \in 0..MaxValueLen}

\* isTruthy(value) called directly, as the tests do.
IsTruthyCall ==
    /\ \E value \in Values : Called("isTruthy", value, isTruthy(value))
    /\ UNCHANGED <<envVars, storeVars, filters, posVars, sizeVars, entryVars, manageVars,
                   editVars, loadVars, tailVars, overlayVars, cmdVars>>

\* A faulty estimateTotalLines, which does not count the newline of a line.
estimateTotalLinesNoNewline(lineLen, total, trailing, sampleSize) ==
    LET size == total * (lineLen + 1) - (IF trailing THEN 0 ELSE 1)
        lineCount == Min(total, sampleSize)
        totalBytes == lineCount * lineLen
    IN  IF size = 0 \/ lineCount = 0 THEN 0
        ELSE size \div (totalBytes \div lineCount)
\* estimateTotalLines on a file of total lines of lineLen bytes each, ended
\* by "\n" (the last one only when trailing), none ending in "\r": the
\* scanner returns every line without its newline, the loop counts up to
\* sampleSize of them with one byte more each, and both divisions are
\* integer divisions.
estimateTotalLines(lineLen, total, trailing, sampleSize) ==
    LET size == total * (lineLen + 1) - (IF trailing THEN 0 ELSE 1)
        lineCount == Min(total, sampleSize)
        totalBytes == lineCount * (lineLen + 1)
    IN  IF size = 0 \/ lineCount = 0 THEN 0
        ELSE size \div (totalBytes \div lineCount)

\* estimateTotalLines(filename, sampleSize) called directly, as the tests do.
EstimateTotalLinesCall ==
    /\ \E lineLen \in 1..MaxLineLen, total \in FileLines, trailing \in BOOLEAN,
          sampleSize \in SampleSizes :
            Called("estimateTotalLines",
                   [lineLen |-> lineLen, total |-> total, trailing |-> trailing,
                    sampleSize |-> sampleSize],
                   estimateTotalLines(lineLen, total, trailing, sampleSize))
    /\ UNCHANGED <<envVars, storeVars, filters, posVars, sizeVars, entryVars, manageVars,
                   editVars, loadVars, tailVars, overlayVars, cmdVars>>

\* m.applyFilters() called on the model itself, as the tests do.
ApplyFiltersCall ==
    /\ filteredLines' = applyFiltersCall(filteredLines, lines, filters)
    /\ UNCHANGED <<envVars, lines, linesCap, fileSize, lastLineNum, filters, posVars,
                   sizeVars, entryVars, manageVars, editVars, loadVars, tailVars,
                   overlayVars, cmdVars>>
    /\ Did("applyFilters", 0, 0)

\* ----------------------------------------------------------- specifications
limTail == [maxDisk |-> MaxTailDisk, contents |-> Contents, maxInFlight |-> 1]
limEnd == [maxDisk |-> MaxEndDisk, contents |-> {"a", "b"}, maxInFlight |-> 2]
limLazy == [maxDisk |-> 0, contents |-> {}, maxInFlight |-> 2]
limStore == [maxDisk |-> MaxStoreDisk, contents |-> {"a", "x"}, maxInFlight |-> 2]
NoFilters == <<>>
StartupIsA == <<[Expression |-> "isA", Enabled |-> TRUE]>>

\* The loader alone: the initial chunk, then loadMoreLines calls.
InitLoader ==
    InitWith(SeqsUpTo(Contents, MaxLoaderDisk), {FALSE}, {NoFilters},
             [maxDisk |-> 0, contents |-> {}, maxInFlight |-> 0], 0)

NextLoader == LoadMoreLinesCall

SpecLoader == InitLoader /\ [][NextLoader]_vars

\* The view over a fully loaded store: filter entry, management and editing,
\* navigation, resizing.
InitView ==
    InitWith(SeqsUpTo(Contents, MaxViewInit), {TRUE}, {NoFilters, StartupIsA},
             [maxDisk |-> 0, contents |-> {}, maxInFlight |-> 0], 0)

NextView ==
    \/ WindowSizeMsg
    \/ KeyUp
    \/ KeyDown
    \/ KeyPgUp
    \/ KeyPgDown
    \/ KeyHome
    \/ KeyEnd
    \/ KeyT
    \/ KeyLeft
    \/ KeyRight
    \/ KeyF
    \/ KeyShiftF
    \/ FilterEsc
    \/ FilterPaste
    \/ FilterEnter
    \/ ManageEsc
    \/ ManageUp
    \/ ManageDown
    \/ ManageToggle
    \/ ManageDelete
    \/ ManageEdit
    \/ EditEsc
    \/ EditHome
    \/ EditKill
    \/ EditPaste
    \/ EditEnter

SpecView == InitView /\ [][NextView]_vars

\* The tail monitor over a fully loaded store, one poll at a time, with the
\* -f filters of the command line, which the user toggles.
StartupIsB == <<[Expression |-> "isB", Enabled |-> TRUE]>>

InitTail ==
    \/ InitWith(SeqsUpTo(Contents, InitialChunkSize - 1), {FALSE},
                {NoFilters, StartupIsA, StartupIsB}, limTail, -1)
    \/ InitWith(SeqsUpTo(Contents, MaxTailInit), {TRUE},
                {NoFilters, StartupIsA, StartupIsB}, limTail, -1)

NextTail ==
    \/ WriteLine
    \/ TickMsg
    \/ CheckForNewLinesRun
    \/ NewLinesMsg
    \/ WindowSizeMsg
    \/ KeyUp
    \/ KeyDown
    \/ KeyHome
    \/ KeyEnd
    \/ KeyT
    \/ KeyRight
    \/ KeyShiftF
    \/ ManageToggle
    \/ ManageEsc

SpecTail == InitTail /\ [][NextTail]_vars

\* The store under concurrent tail polls and background loads.
InitStore ==
    InitWith({d \in SeqsUpTo(limStore.contents, MaxStoreInit) : Len(d) >= InitialChunkSize},
             {FALSE}, {StartupIsA}, limStore, MaxStoreTicks)

NextStore ==
    \/ WriteLine
    \/ TickMsg
    \/ CheckForNewLinesRun
    \/ NewLinesMsg
    \/ LoadMoreLinesRun
    \/ LoadMoreLinesMsg
    \/ KeyDown

SpecStore == InitStore /\ [][NextStore]_vars

\* A lazily loaded file that grows while "end" loads the rest of it and a
\* filter is entered.
InitEnd ==
    InitWith([1..MaxEndInit -> limEnd.contents], {FALSE}, {NoFilters}, limEnd, MaxEndTicks)

NextEnd ==
    \/ WriteLine
    \/ TickMsg
    \/ CheckForNewLinesRun
    \/ NewLinesMsg
    \/ LoadToEndRun
    \/ LoadToEndMsg
    \/ KeyEnd
    \/ KeyF
    \/ FilterPaste
    \/ FilterEnter
    \/ FilterEsc

SpecEnd == InitEnd /\ [][NextEnd]_vars


\* A file that does not grow, loaded lazily: navigation, "end" and "t" with
\* the background loads they start.
InitLazy ==
    InitWith(SeqsUpTo({"a", "x"}, MaxLazyDisk), {FALSE}, {NoFilters, StartupIsA}, limLazy, 0)

NextLazy ==
    \/ WindowSizeMsg
    \/ KeyUp
    \/ KeyDown
    \/ KeyPgDown
    \/ KeyEnd
    \/ KeyT
    \/ LoadMoreLinesRun
    \/ LoadMoreLinesMsg
    \/ LoadToEndRun
    \/ LoadToEndMsg

SpecLazy == InitLazy /\ [][NextLazy]_vars

\* Lazy sessions on files long enough for loadToEnd to need several batches.
\* The runtime runs every command it was handed and delivers every message a
\* command returned.
InitChain ==
    InitWith(SeqsUpTo({"a"}, MaxChainDisk), {FALSE}, {NoFilters, StartupIsA}, limLazy, 0)

SpecChain ==
    InitChain /\ [][NextLazy]_vars /\ WF_vars(LoadToEndRun) /\ WF_vars(LoadToEndMsg)

\* Sessions in which the log file is deleted while it is tailed.
limGone == [maxDisk |-> MaxGoneDisk, contents |-> {"a"}, maxInFlight |-> 2]

InitGone ==
    InitWith(SeqsUpTo({"a", "x"}, MaxGoneInit), {FALSE, TRUE}, {NoFilters}, limGone,
             MaxGoneTicks)

NextGone ==
    \/ WriteLine
    \/ RemoveFile
    \/ TickMsg
    \/ CheckForNewLinesRun
    \/ NewLinesMsg
    \/ KeyDown
    \/ KeyT
    \/ LoadToEndRun
    \/ LoadToEndMsg

SpecGone == InitGone /\ [][NextGone]_vars

\* Sessions on a fully loaded file that is not written to, with every key
\* that enters or leaves a mode.
limModes == [maxDisk |-> 0, contents |-> {}, maxInFlight |-> 1]

InitModes ==
    InitWith(SeqsUpTo({"a", "b"}, MaxModesInit), {TRUE}, {NoFilters, StartupIsA}, limModes, 0)

NextModes ==
    \/ KeyUp
    \/ KeyDown
    \/ KeyF
    \/ FilterPaste
    \/ FilterEnter
    \/ FilterEsc
    \/ KeyShiftF
    \/ ManageEsc
    \/ ManageEdit
    \/ EditEsc
    \/ EditHome
    \/ EditKill
    \/ EditPaste
    \/ EditEnter
    \/ KeyV
    \/ ViewEsc
    \/ ViewHome
    \/ ViewKill
    \/ ViewPaste
    \/ ViewEnter
    \/ KeyH
    \/ KeyEnter
    \/ KeyEsc
    \/ KeyQ

SpecModes == InitModes /\ [][NextModes]_vars

\* Sessions with every kind of message (ticks, new lines, load completions
\* with and without error, spinner ticks, resizes) and the keys that open and
\* close the overlays or quit.
limQuit == [maxDisk |-> MaxQuitDisk, contents |-> {"a"}, maxInFlight |-> 2]

InitQuit ==
    InitWith(SeqsUpTo({"a"}, MaxQuitInit), {FALSE, TRUE}, {NoFilters}, limQuit,
             MaxQuitTicks)

NextQuit ==
    \/ WriteLine
    \/ RemoveFile
    \/ WindowSizeMsg
    \/ TickMsg
    \/ CheckForNewLinesRun
    \/ NewLinesMsg
    \/ KeyDown
    \/ LoadMoreLinesRun
    \/ LoadMoreLinesMsg
    \/ KeyEnd
    \/ LoadToEndRun
    \/ LoadToEndMsg
    \/ SpinnerTickMsg
    \/ KeyH
    \/ KeyEnter
    \/ KeyEsc
    \/ KeyQ

SpecQuit == InitQuit /\ [][NextQuit]_vars

\* Direct calls of loadMoreLines and applyFilters on models started with and
\* without filters.
InitFilter ==
    InitWith(SeqsUpTo(Contents, MaxFilterDisk), {FALSE}, {NoFilters, StartupIsA, StartupIsB},
             limLazy, 0)

NextFilter == LoadMoreLinesCall \/ ApplyFiltersCall

SpecFilter == InitFilter /\ [][NextFilter]_vars

\* Sessions on a fully loaded file, started with filters that yield no
\* result (isB) or an error (errA) on some lines, in which the filters are
\* toggled and deleted.
StartupErrA == <<[Expression |-> "errA", Enabled |-> TRUE]>>
StartupIsBErrA ==
    <<[Expression |-> "isB", Enabled |-> TRUE], [Expression |-> "errA", Enabled |-> TRUE]>>

InitEval ==
    InitWith(SeqsUpTo(Contents, MaxEvalDisk), {TRUE}, {StartupIsB, StartupErrA, StartupIsBErrA},
             limLazy, 0)

NextEval ==
    \/ KeyUp
    \/ KeyDown
    \/ KeyShiftF
    \/ ManageUp
    \/ ManageDown
    \/ ManageToggle
    \/ ManageDelete
    \/ ManageEsc

SpecEval == InitEval /\ [][NextEval]_vars

(***************************************************************************)
(* Startup: main from the parsed command line to the interactive loop.     *)
(***************************************************************************)
\* The process before main has run: every field of the Model is its zero value.
InitMain ==
    /\ disk = <<>>
    /\ hPos = 0
    /\ hClosed = FALSE
    /\ removed = FALSE
    /\ lines = <<>>
    /\ linesCap = 0
    /\ filters = <<>>
    /\ filteredLines = <<>>
    /\ cursor = 0
    /\ viewport = 0
    /\ height = 0
    /\ width = 0
    /\ lineScrollOffset = 0
    /\ fileSize = 0
    /\ lastLineNum = 0
    /\ filterMode = FALSE
    /\ filterInput = ""
    /\ filterCursorPos = 0
    /\ filterManageMode = FALSE
    /\ filterCursor = 0
    /\ filterEditMode = FALSE
    /\ filterEditInput = ""
    /\ filterEditCursorPos = 0
    /\ file = "nil"
    /\ isFileFullyLoaded = FALSE
    /\ loadingMoreLines = FALSE
    /\ showSpinner = FALSE
    /\ tailMode = FALSE
    /\ needsInitialTailJump = FALSE
    /\ showPretty = FALSE
    /\ showHelp = FALSE
    /\ viewMode = FALSE
    /\ viewInput = ""
    /\ viewCursorPos = 0
    /\ viewExpression = ""
    /\ loadMoreCmd = NoCmd
    /\ inflight = EmptyBag
    /\ op = "start"
    /\ currentLineNumber = 0
    /\ batch = 0
    /\ arg = NoResult
    /\ result = NoResult
    /\ limits = limLazy
    /\ ticksLeft = 0

\* The command lines: the file (absent, present but not openable for reading,
\* or readable), -t, the -f expressions in order, the -V expression ("" when
\* the flag is absent).
CommandLines ==
    [file : {"missing", "unreadable", "ok"}, tail : BOOLEAN,
     filters : SeqsUpTo(Texts, MaxFilters), view : Texts \cup {""}]

RECURSIVE addFilters(_, _)
\* The loop over the -f flags: addFilter on each, stopping at the first
\* expression that does not compile ("error" stands for the returned error).
addFilters(fs, exprs) ==
    IF exprs = <<>> THEN fs
    ELSE IF ~Compiles(Head(exprs)) THEN "error"
    ELSE addFilters(addFilter(fs, Head(exprs)), Tail(exprs))

\* os.Exit(1): the process ends with the Model never handed to the loop.
Exit(cl, code) ==
    /\ op' = "os.Exit"
    /\ arg' = cl
    /\ result' = GoValue("int", code)
    /\ UNCHANGED <<envVars, storeVars, filters, posVars, sizeVars, entryVars,
                   manageVars, editVars, loadVars, tailVars, overlayVars,
                   cmdVars, currentLineNumber, batch, budgetVars>>

\* The Model literal, the -f filters, the -V expression and -t, then p.Run().
Construct(cl, d, startup) ==
    LET loaded == IF cl.tail THEN NumberLines(d, 1)
                  ELSE NumberLines(SubSeq(d, 1, InitialKept(d)), 1)
    IN  /\ disk' = d
        /\ hPos' \in IF cl.tail THEN {0} ELSE ReadPositions(d, 0, InitialScanned(d))
        /\ hClosed' = FALSE
        /\ removed' = FALSE
        /\ lines' = loaded
        /\ linesCap' = BuiltCap(Len(loaded))
        /\ filters' = startup
        /\ filteredLines' = applyFilters(loaded, startup)
        /\ cursor' = 0
        /\ viewport' = 0
        /\ height' = DefaultHeight
        /\ width' = DefaultWidth
        /\ lineScrollOffset' = 0
        /\ fileSize' = Len(d)
        /\ lastLineNum' = Len(loaded)
        /\ UNCHANGED <<entryVars, manageVars, editVars>>
        /\ file' = IF cl.tail THEN "nil" ELSE "h"
        /\ isFileFullyLoaded' = (cl.tail \/ Len(loaded) < InitialChunkSize)
        /\ loadingMoreLines' = FALSE
        /\ showSpinner' = FALSE
        /\ tailMode' = cl.tail
        /\ needsInitialTailJump' = cl.tail
        /\ UNCHANGED <<showPretty, showHelp, viewMode, viewInput, viewCursorPos>>
        /\ viewExpression' = cl.view
        /\ UNCHANGED <<cmdVars, currentLineNumber, batch, budgetVars>>
        /\ op' = "main"
        /\ arg' = cl
        /\ result' = NoResult

\* A faulty main that stores the -V expression without compiling it.
MainKeepsView ==
    /\ op = "start"
    /\ \E cl \in CommandLines, d \in SeqsUpTo(Contents, MaxMainDisk) :
          IF cl.file # "ok" THEN Exit(cl, 1)
          ELSE IF addFilters(<<>>, cl.filters) = "error" THEN Exit(cl, 1)
          ELSE Construct(cl, d, addFilters(<<>>, cl.filters))
\* main: os.Stat on the file, the first load, the -f filters, the -V
\* expression, then the interactive loop.
Main ==
    /\ op = "start"
    /\ \E cl \in CommandLines, d \in SeqsUpTo(Contents, MaxMainDisk) :
          IF cl.file = "missing" THEN Exit(cl, 1)
          ELSE IF cl.file = "unreadable" THEN Exit(cl, 1)
          ELSE IF addFilters(<<>>, cl.filters) = "error" THEN Exit(cl, 1)
          ELSE IF cl.view # "" /\ ~Compiles(cl.view) THEN Exit(cl, 1)
          ELSE Construct(cl, d, addFilters(<<>>, cl.filters))

NextMain ==
    \/ Main
    \/ KeyUp
    \/ KeyDown
    \/ KeyShiftF
    \/ ManageToggle
    \/ ManageEsc

SpecMain == InitMain /\ [][NextMain]_vars

RECURSIVE Repeat(_, _)
\* A Go string of n copies of the text c.
Repeat(c, n) == IF n <= 0 THEN "" ELSE c \o Repeat(c, n - 1)

\* The string applyViewTransform returns when the first result of the view
\* filter is v: "" for no result and for an error, the string itself, "null",
\* "true" / "false", the number through %d or %g, and json.Marshal of
\* anything else.  A string of length n is "s" n times; a slice holds n
\* zeros, a map n keys "k" with value 0.
applyViewTransform(v) ==
    LET digits(n) == (IF n < 0 THEN "-" ELSE "")
                     \o <<"0", "1", "2", "3", "4", "5", "6", "7", "8", "9">>
                            [(IF n < 0 THEN -n ELSE n) + 1]
    IN  CASE v.kind \in {"none", "error"} -> ""
          [] v.kind = "string" -> Repeat("s", v.n)
          [] v.kind = "nil" -> "null"
          [] v.kind = "bool" -> (IF v.n = 1 THEN "true" ELSE "false")
          [] v.kind \in {"int", "float64"} -> digits(v.n)
          [] v.kind = "[]interface{}" ->
                "[" \o (IF v.n = 0 THEN "" ELSE "0" \o Repeat(",0", v.n - 1)) \o "]"
          [] v.kind = "map[string]interface{}" ->
                "{" \o (IF v.n = 0 THEN "" ELSE "\"k\":0" \o Repeat(",\"k\":0", v.n - 1))
                    \o "}"
          [] OTHER -> digits(v.n)

\* The text View() shows for a valid line with raw text raw when a view
\* filter is set and its first result on the line is v.
displayLine(raw, v) ==
    LET transformedData == applyViewTransform(v)
    IN  IF transformedData # "" THEN transformedData ELSE raw

\* The rendering of one line whose view filter yields v: no result, an
\* error, or any value gojq produces.
ViewTransformCall ==
    /\ \E v \in (Values \ {GoValue("struct{}", 0)}) \cup {NoResult, GoValue("error", 0)} :
          Called("applyViewTransform", v, displayLine("raw", v))
    /\ UNCHANGED <<envVars, storeVars, filters, posVars, sizeVars, entryVars, manageVars,
                   editVars, loadVars, tailVars, overlayVars, cmdVars>>

RECURSIVE ScanLines(_)
\* The tokens bufio.Scanner with ScanLines returns on the bytes b up to the
\* end of the file: the text before each "\n" and, when bytes follow the last
\* "\n", those bytes as a last token.
ScanLines(b) ==
    IF b = <<>> THEN <<>>
    ELSE LET nl == {i \in 1..Len(b) : b[i] = "\n"}
         IN  IF nl = {} THEN <<b>>
             ELSE LET i == CHOOSE j \in nl : \A k \in nl : j <= k
                  IN  <<SubSeq(b, 1, i - 1)>> \o ScanLines(SubSeq(b, i + 1, Len(b)))

\* The raw lines one checkForNewLines command returns on a file holding the
\* bytes b when the Model's fileSize was currentSize.
checkForNewLinesBytes(b, currentSize) ==
    IF Len(b) <= currentSize THEN <<>>
    ELSE ScanLines(SubSeq(b, currentSize + 1, Len(b)))

\* Two polls of a file that ends up holding the bytes b: the first runs when
\* the first cut bytes are written and its newLinesMsg sets fileSize from
\* os.Stat (only when it brought lines), the second runs on the whole file.
CheckForNewLinesTwiceCall ==
    /\ \E b \in SeqsUpTo({"a", "\n"}, MaxFileBytes) : \E cut \in 0..Len(b) :
          LET first == checkForNewLinesBytes(SubSeq(b, 1, cut), 0)
              size == IF Len(first) > 0 THEN cut ELSE 0
          IN  Called("checkForNewLinesTwice", [bytes |-> b, cut |-> cut],
                     first \o checkForNewLinesBytes(b, size))
    /\ UNCHANGED <<envVars, storeVars, filters, posVars, sizeVars, entryVars, manageVars,
                   editVars, loadVars, tailVars, overlayVars, cmdVars>>

\* Direct calls of isTruthy and estimateTotalLines.
InitCalls == InitWith(SeqsUpTo({"a", "x"}, MaxCallsDisk), {FALSE}, {NoFilters}, limLazy, 0)

NextCalls ==
    \/ IsTruthyCall
    \/ EstimateTotalLinesCall
    \/ CheckForNewLinesTwiceCall
    \/ ViewTransformCall

SpecCalls == InitCalls /\ [][NextCalls]_vars

\* ------------------------------------------------------------------ claims
\* s is a prefix of t.
IsPrefix(s, t) == Len(s) <= Len(t) /\ SubSeq(t, 1, Len(s)) = s

\* s is a subsequence of t: its entries occur in t, in the same order.
RECURSIVE IsSubseqFrom(_, _, _, _)
IsSubseqFrom(s, t, i, j) ==
    IF i > Len(s) THEN TRUE
    ELSE IF j > Len(t) THEN FALSE
    ELSE IF s[i] = t[j] THEN IsSubseqFrom(s, t, i + 1, j + 1)
    ELSE IsSubseqFrom(s, t, i, j + 1)

IsSubseq(s, t) == IsSubseqFrom(s, t, 1, 1)

Contains(seq, line) == \E j \in 1..Len(seq) : seq[j] = line

\* The evaluation of every enabled filter on the line is truthy.
EveryEnabledFilterTruthy(line) ==
    \A k \in 1..Len(filters) :
        filters[k].Enabled =>
            /\ RunQuery(filters[k].Expression, line.RawLine).kind \notin {"none", "error"}
            /\ isTruthy(RunQuery(filters[k].Expression, line.RawLine))

ValidAndPasses(line) == line.IsValid /\ EveryEnabledFilterTruthy(line)

FilterOps == {"filterAdd", "filterEdit", "filterToggle", "filterDelete"}

\* C1, as stated: the visible sequence contains a line of the store if and
\* only if the line is valid JSON and every enabled filter is truthy on it,
\* for any number of filters (none included).
C1_VisibleIffValidAndPasses ==
    \A i \in 1..Len(lines) :
        Contains(getVisibleLines, lines[i]) <=> ValidAndPasses(lines[i])

\* C1, as amended: when at least one filter is defined (enabled or not), the
\* visible sequence contains a line of the store if and only if the line is
\* valid JSON and every enabled filter is truthy on it.
C1_FilteredIffValidAndPasses ==
    Len(filters) > 0 =>
        \A i \in 1..Len(lines) :
            Contains(getVisibleLines, lines[i]) <=> ValidAndPasses(lines[i])

\* A filter mutation left two filters, at least one enabled, with a line shown,
\* a valid line hidden and an invalid line hidden.
C1_Witness ==
    /\ op \in FilterOps
    /\ Len(filters) = 2
    /\ \E k \in 1..Len(filters) : filters[k].Enabled
    /\ Len(getVisibleLines) > 0
    /\ \E i \in 1..Len(lines) : lines[i].IsValid /\ ~Contains(getVisibleLines, lines[i])
    /\ \E i \in 1..Len(lines) : ~lines[i].IsValid /\ ~Contains(getVisibleLines, lines[i])

\* C2: when no filters are defined, the visible sequence is the whole store,
\* invalid lines included.
C2_NoFiltersShowsStore == Len(filters) = 0 => getVisibleLines = lines

\* New lines, one of them invalid, were appended while no filter was defined.
C2_Witness ==
    /\ Len(filters) = 0
    /\ op = "newLinesMsg"
    /\ batch > 0
    /\ ~lines[Len(lines)].IsValid
    /\ Len(getVisibleLines) >= 2

\* C3: in every reachable state the visible sequence is a subsequence of the
\* store, in the store's order.
C3_VisibleIsSubsequence == IsSubseq(getVisibleLines, lines)

\* C4: under any interleaving of ticks, newLinesMsg deliveries, loads and
\* keys, the line numbers of the store are exactly 1..len(store), in order.
C4_LineNumbersAreIndices ==
    [i \in 1..Len(lines) |-> lines[i].LineNumber] = [i \in 1..Len(lines) |-> i]

\* C5: after the initial load and any sequence of loadMoreLines calls, with no
\* other writer, the line numbers of the store are exactly 1..len(store).
C5_LazyLoadNumbering == \A i \in 1..Len(lines) : lines[i].LineNumber = i

\* A loadMoreLines call appended lines to the initial chunk.
C5_Witness ==
    /\ op = "loadMoreLines"
    /\ batch > 0
    /\ Len(lines) > InitialChunkSize + 1

\* C6: the store is append-only: across every step the store before the
\* step is a prefix of the store after it.
C6_StoreAppendOnly == [][IsPrefix(lines, lines')]_vars

\* The entry restorePositionAfterFilter has to select for target L.
RestoreTarget(vis, L) ==
    IF \E j \in 1..Len(vis) : vis[j].LineNumber = L
    THEN vis[cursor + 1].LineNumber = L
    ELSE IF \E j \in 1..Len(vis) : vis[j].LineNumber < L
    THEN /\ vis[cursor + 1].LineNumber < L
         /\ \A j \in 1..Len(vis) :
                vis[j].LineNumber < L => vis[j].LineNumber <= vis[cursor + 1].LineNumber
    ELSE cursor = 0

\* C7: after every filter mutation (add, edit, toggle, delete), with L the
\* line number selected before it: the cursor is on the entry numbered L if
\* it is visible, else on the entry with the greatest number below L, else
\* on index 0.
C7_PositionRestored ==
    (op \in FilterOps /\ currentLineNumber > 0) =>
        /\ cursor >= 0
        /\ Len(getVisibleLines) > 0 => cursor < Len(getVisibleLines)
        /\ Len(getVisibleLines) > 0 => RestoreTarget(getVisibleLines, currentLineNumber)
        /\ Len(getVisibleLines) = 0 => cursor = 0

\* C8: in every reachable state the cursor is within the visible sequence
\* when it is non-empty, and 0 when it is empty.
C8_CursorInBounds ==
    IF Len(getVisibleLines) > 0
    THEN cursor >= 0 /\ cursor <= Len(getVisibleLines) - 1
    ELSE cursor = 0

\* C9: with tail-follow active, a batch of new lines that does not make the
\* visible sequence longer leaves the cursor and the viewport where they are.
C9_NoGrowthNoJump ==
    [][(op' = "newLinesMsg" /\ tailMode /\ Len(getVisibleLines') <= Len(getVisibleLines))
        => (cursor' = cursor /\ viewport' = viewport)]_vars

\* A line of the last batch is shown.
BatchHasVisibleLine ==
    \E i \in (Len(lines) - batch + 1)..Len(lines) :
        IF Len(filters) = 0 THEN TRUE ELSE ValidAndPasses(lines[i])

\* C10: with tail-follow active, after a batch with at least one line that
\* passes the filters was appended, the cursor is on the last visible entry
\* and the horizontal scroll is 0.
C10_TailJumpsToLast ==
    (op = "newLinesMsg" /\ tailMode /\ BatchHasVisibleLine) =>
        /\ cursor = Len(getVisibleLines) - 1
        /\ \E i \in (Len(lines) - batch + 1)..Len(lines) :
                lines[i] = getVisibleLines[Len(getVisibleLines)]
        /\ lineScrollOffset = 0

\* In tail mode, under an enabled filter, a batch brought a passing line and a
\* line the filter hides.
C10_Witness ==
    /\ op = "newLinesMsg"
    /\ tailMode
    /\ batch >= 2
    /\ Len(filters) > 0
    /\ BatchHasVisibleLine
    /\ Len(getVisibleLines) < Len(lines)
    /\ Len(getVisibleLines) >= 2
    /\ cursor = Len(getVisibleLines) - 1

\* Load commands issued and not yet answered by their last message.
LoadItems ==
    {item \in BagToSet(inflight) :
        item.type \in {"loadMoreLinesMsg", "loadToEndCmd", "loadToEndMsg"}}

LoadsOutstanding ==
    (IF loadMoreCmd = NoCmd THEN 0 ELSE 1)
    + BagCardinality([item \in LoadItems |-> inflight[item]])

LoadToEndOutstanding == InFlight("loadToEndCmd") \cup InFlight("loadToEndMsg") # {}

\* C11, as stated: in every reachable state tail-follow being active implies
\* that the store is fully loaded.
C11_TailImpliesFullyLoaded == tailMode => isFileFullyLoaded

\* C11, as amended: "t" activates tail-follow at once and starts loadToEnd
\* with the busy indicator; in every reachable state tail-follow being active
\* implies that the store is fully loaded or that the busy indicator is shown
\* with a loadToEnd outstanding.
C11_TailImpliesLoadedOrLoading ==
    tailMode => (isFileFullyLoaded \/ (showSpinner /\ LoadToEndOutstanding))

\* "t" activated tail-follow on a store that is not fully loaded.
C11_Witness ==
    /\ op = "t"
    /\ tailMode
    /\ ~isFileFullyLoaded
    /\ Len(lines) < Len(disk)

\* C13: at most one load request (loadMore or loadToEnd) is outstanding at
\* any time.
C13_OneLoadOutstanding == LoadsOutstanding <= 1

\* The selected line is the last line of the visible sequence and the last
\* row of the window (the rows above the status bar).
LastLineOnLastRow(vis, c, v, h) ==
    /\ c = Len(vis) - 1
    /\ IF Len(vis) >= h - 1 THEN c = v + (h - 1) - 1 ELSE v = 0

\* C12: started with the tail-follow flag, the store is fully loaded and the
\* jump to the bottom is queued; it stays queued until the first
\* WindowSizeMsg, which puts the cursor on the last visible line, shown as the
\* last row of the window, and clears it; no later resize repeats the jump.
C12_InitialTailJump ==
    /\ []((op = "main" /\ tailMode) => (needsInitialTailJump /\ isFileFullyLoaded))
    /\ [][IF op' = "WindowSizeMsg"
          THEN /\ ~needsInitialTailJump'
               /\ IF needsInitialTailJump /\ Len(getVisibleLines) > 0
                  THEN LastLineOnLastRow(getVisibleLines', cursor', viewport', height')
                  ELSE cursor' = cursor /\ viewport' = viewport
          ELSE needsInitialTailJump' = needsInitialTailJump]_vars

\* After a start with the tail-follow flag the window size arrived: the
\* cursor is on the last of three lines, scrolled to the last row.
C12_Witness ==
    /\ op = "WindowSizeMsg"
    /\ tailMode
    /\ ~needsInitialTailJump
    /\ Len(getVisibleLines) = 3
    /\ cursor = 2
    /\ viewport > 0
    /\ fileSize = 3

\* C14: when the completion of a load issued by down is processed right
\* after the load ran without error, the model holds the lines it read (the
\* store has grown by their number), and a load that found fewer lines than
\* the chunk size left the store fully loaded with the handle released.
\* (After loadMoreLines ran, currentLineNumber is the store length the load
\* started from and batch the number of lines it read.)
C14_CompletionBringsLines ==
    [][(/\ op = "loadMoreLines"
        /\ op' = "loadMoreLinesMsg"
        /\ \A msg \in InFlight("loadMoreLinesMsg") : ~msg.err)
       => /\ Len(lines') >= currentLineNumber + batch
          /\ batch < LoadMoreChunkSize => (isFileFullyLoaded' /\ file' = "nil")]_vars

\* C15: a background load that runs (the loadMore closure, a loadToEndCmd)
\* leaves the state the event loop reads as it was: the line store, the
\* fully-loaded flag, the file handle reference and the last line number
\* change only when a completion message is processed.
C15_LoadsLeaveModelAlone ==
    [][op' \in {"loadMoreLines", "loadToEndCmd"}
       => UNCHANGED <<lines, isFileFullyLoaded, file, lastLineNum>>]_vars

C17_NoByteReadTwice ==
    /\ [](Len(lines) <= Len(disk))
    /\ [][/\ fileSize' >= fileSize
          /\ op' = "checkForNewLines"
             => \A c \in InFlight("checkForNewLines") :
                    CopiesIn(c, inflight') < CopiesIn(c, inflight)
                    => c.currentSize >= fileSize]_vars

\* A text that is submitted and does not compile.
Rejected(text) == text # "" /\ ~Compiles(text)

\* The enter key is received by an input mode holding a text that does not
\* compile.
SubmitsRejected ==
    \/ filterEditMode /\ Rejected(filterEditInput)
    \/ InFilterMode /\ Rejected(filterInput)
    \/ InViewMode /\ Rejected(viewInput)

EnterOps == {"enter", "compileFailed", "filterAdd", "filterEdit", "viewSet"}

\* C18: submitting a text that does not compile in filter entry, filter edit
\* or view entry leaves the filter list, the visible sequence, the cursor,
\* the vertical scroll and the view transform as they were; the input mode
\* is left.
C18_FailedCompileIsNoOp ==
    [][(SubmitsRejected /\ op' \in EnterOps)
       => /\ UNCHANGED <<filters, cursor, viewport, viewExpression>>
          /\ getVisibleLines' = getVisibleLines
          /\ ~filterEditMode' /\ ~filterMode' /\ ~viewMode']_vars

\* A rejected text was just submitted, with a filter in the list, the cursor
\* on the second line and a view transform active.
C18_Witness ==
    /\ op = "compileFailed"
    /\ NormalMode
    /\ Len(filters) = 1
    /\ cursor = 1
    /\ viewExpression = "isA"

\* C19: at most one of filterMode, filterEditMode, filterManageMode,
\* viewMode, showPretty and showHelp holds.
C19_ModesExclusive ==
    LET flags == <<filterMode, filterEditMode, filterManageMode, viewMode, showPretty,
                   showHelp>>
    IN  Cardinality({i \in 1..Len(flags) : flags[i]}) <= 1

MessageOps ==
    {"tickMsg", "newLinesMsg", "loadMoreLinesMsg", "loadToEndMsg", "spinnerTickMsg",
     "WindowSizeMsg"}

\* C20: Update returns the quit command only in normal key handling, for "q"
\* or ctrl+c, or for esc when neither the help screen nor the detail view is
\* open; handling a tick, new lines, a load completion (with or without
\* error), a spinner tick or a resize never returns it.
C20_QuitOnlyOnQuitKeys ==
    [][/\ (Quitting' /\ ~Quitting)
          => /\ NormalMode
             /\ op' = "q" \/ (op' = "esc" /\ ~showHelp /\ ~showPretty)
       /\ op' \in MessageOps => ~Quitting']_vars

\* Esc ended a session with no overlay open, after a load had ended the
\* loading of a file of three lines that was never written to with two lines
\* in the store.
C20_Witness ==
    /\ Quitting
    /\ op = "esc"
    /\ ~showHelp /\ ~showPretty
    /\ isFileFullyLoaded
    /\ Len(lines) = 2
    /\ Len(disk) = 3
    /\ fileSize = 3

\* The visible sequence the filters give over the whole current line store.
VisibleRecomputed == getVisibleLinesOf(lines, applyFilters(lines, filters), filters)

AppendOps == {"newLinesMsg", "loadMoreLinesMsg", "loadToEndMsg"}

\* C21: right after a message that appends lines was processed (newLinesMsg,
\* a loadMore completion, a loadToEnd batch, final or not), the visible
\* sequence is the filter result over the whole current line store.
C21_VisibleRecomputedAfterAppend ==
    op \in AppendOps => getVisibleLines = VisibleRecomputed

\* C22: right after applyFilters ran, running it again on the same line
\* store and filter list gives the sequence it gave the first time.
C22_ApplyFiltersIdempotent ==
    op = "applyFilters" => applyFiltersCall(filteredLines, lines, filters) = filteredLines

\* applyFilters ran with a filter that keeps some of the lines and drops
\* others, on a store that loadMoreLines had extended.
C22_Witness ==
    /\ op = "applyFilters"
    /\ Len(filters) = 1
    /\ Len(filteredLines) > 0
    /\ Len(filteredLines) < Len(lines)
    /\ Len(lines) > InitialChunkSize

\* null, false, numeric zero, the empty string, the empty array and the
\* empty object.
Falsy ==
    {GoValue("nil", 0), GoValue("bool", 0), GoValue("int", 0), GoValue("float64", 0),
     GoValue("string", 0), GoValue("[]interface{}", 0), GoValue("map[string]interface{}", 0)}

\* C23: isTruthy returns false for null, false, numeric zero, the empty
\* string, the empty array and the empty object, and true for every other
\* value, values of an unrecognised kind included.
C23_TruthinessTable == op = "isTruthy" => result = (arg \notin Falsy)

\* isTruthy returned true for a value of a kind it has no case for.
C23_Witness == op = "isTruthy" /\ arg.kind = "struct{}" /\ result = TRUE

EvaluationFails(line) ==
    \E k \in 1..Len(filters) :
        /\ filters[k].Enabled
        /\ RunQuery(filters[k].Expression, line.RawLine).kind \in {"none", "error"}

\* C24: a line on which an enabled filter yields no result or an error is not
\* in the visible sequence; a valid line that every enabled filter accepts is
\* in it, whatever the disabled filters yield; and the step that recomputes
\* the visible sequence leaves the line store, the loading state and
\* auto-follow alone and does not end the session.
C24_FailedEvaluationExcludes ==
    /\ [](\A i \in 1..Len(lines) :
            /\ EvaluationFails(lines[i]) => ~Contains(getVisibleLines, lines[i])
            /\ ValidAndPasses(lines[i]) => Contains(getVisibleLines, lines[i]))
    /\ [][op' \in FilterOps
          => UNCHANGED <<lines, fileSize, lastLineNum, loadVars, tailVars>> /\ ~Quitting']_vars

\* With isB disabled and errA enabled, the "a" line (errA fails on it) is
\* hidden and the "b" line is shown.
C24_Witness ==
    /\ op = "filterToggle"
    /\ filters = <<[Expression |-> "isB", Enabled |-> FALSE],
                   [Expression |-> "errA", Enabled |-> TRUE]>>
    /\ Len(lines) = 2
    /\ lines[1].RawLine = "a"
    /\ getVisibleLines = <<lines[2]>>

\* C25: entering view entry, submitting an expression that compiles (it
\* becomes the view transform), submitting the empty input (the view
\* transform is cleared) and cancelling with Esc leave the line store, the
\* filter list, the visible sequence, the cursor and the vertical scroll as
\* they were.
C25_ViewTransformKeepsVisibility ==
    [][/\ ((NormalMode /\ op' = "v") \/ (InViewMode /\ op' \in {"viewSet", "esc"}))
          => /\ UNCHANGED <<lines, filters, cursor, viewport>>
             /\ getVisibleLines' = getVisibleLines
       /\ (InViewMode /\ op' = "viewSet") => viewExpression' = viewInput
       /\ (InViewMode /\ op' = "esc") => viewExpression' = viewExpression]_vars

\* The view transform isB was submitted with a filter active and the cursor
\* on the second visible line.
C25_Witness ==
    /\ op = "viewSet"
    /\ viewExpression = "isB"
    /\ Len(filters) = 1
    /\ cursor = 1

\* C26: when newLinesMsg or a loadMore completion is processed while
\* auto-follow is off, the line number under the cursor and the vertical
\* scroll are the same after it as before.
C26_AppendKeepsSelection ==
    [][(/\ op' \in {"newLinesMsg", "loadMoreLinesMsg"}
        /\ ~tailMode
        /\ cursor < Len(getVisibleLines))
       => /\ cursor' < Len(getVisibleLines')
          /\ getVisibleLines'[cursor' + 1].LineNumber = getVisibleLines[cursor + 1].LineNumber
          /\ viewport' = viewport]_vars

\* A command line that must not reach the interactive loop: the file is
\* missing or unreadable, a -f expression or the -V expression does not compile.
StartupFails(cl) ==
    \/ cl.file # "ok"
    \/ \E i \in 1..Len(cl.filters) : ~Compiles(cl.filters[i])
    \/ cl.view # "" /\ ~Compiles(cl.view)

\* C27: once main has run, a command line with a missing or unreadable file,
\* a -f expression that does not compile or a -V expression that does not
\* compile has ended the process through os.Exit with a non-zero code and the
\* interactive loop is never entered for it; and when main enters the loop,
\* the filter list holds every -f expression, in order, each enabled.
C27_StartupFailuresAbort ==
    /\ op # "start" /\ StartupFails(arg) => op = "os.Exit"
    /\ op = "os.Exit" => result.kind = "int" /\ result.n # 0
    /\ op = "main" =>
          /\ Len(filters) = Len(arg.filters)
          /\ \A i \in 1..Len(filters) :
                filters[i] = [Expression |-> arg.filters[i], Enabled |-> TRUE]

\* A readable file and a compiling -f filter, but a -V expression that does
\* not compile: the process has exited with code 1.
C27_Witness ==
    /\ op = "os.Exit"
    /\ result = GoValue("int", 1)
    /\ arg.file = "ok"
    /\ arg.filters = <<"isA">>
    /\ arg.view = "bad"

\* The offset nearest to v at which index c is inside the window of h - 1
\* rows: v itself when c is already inside.
NearestViewport(v, c, h) ==
    IF c < v THEN c
    ELSE IF c >= v + (h - 1) THEN c - (h - 1) + 1
    ELSE v

MoveOps == {"up", "down"}
ReanchorOps == {"filterAdd", "filterDelete", "filterEdit", "filterToggle"}

C30_ResizeKeepsSelectionInWindow ==
    [][/\ op' = "WindowSizeMsg"
       /\ height' >= 2
       /\ Len(getVisibleLines') > 0
       => /\ viewport' <= cursor'
          /\ cursor' < viewport' + (height' - 1)]_vars

\* C31: in every reachable state of a session started without -t (so that
\* loadInitialChunk opened the handle), a store marked fully loaded retains no
\* file handle: the handle is closed and the Model's reference to it is cleared.
C31_FullyLoadedHoldsNoHandle ==
    isFileFullyLoaded => file = "nil" /\ hClosed

\* The state right after a loadToEndMsg that ended the chain of batches.
FinalBatchProcessed ==
    /\ op = "loadToEndMsg"
    /\ isFileFullyLoaded
    /\ file = "nil"
    /\ hClosed
    /\ ~showSpinner
    /\ Len(getVisibleLines) > 0 => cursor = Len(getVisibleLines) - 1

\* C32: on an unchanging file, once End or 't' has issued a loadToEndCmd, and
\* every issued command runs and every message is delivered, a final batch
\* is eventually processed; right after it the store is marked fully loaded,
\* the handle is closed and cleared, the spinner is off and the cursor is on
\* the last visible line.
C32_LoadToEndReachesFinalBatch ==
    (InFlight("loadToEndCmd") # {}) ~> FinalBatchProcessed

\* A file of six lines, two of them loaded at startup and a third consumed
\* by the first scanner: End has read a batch of two lines that was not
\* final, and the next batch, of one line, has ended the chain.
C32_Witness ==
    /\ FinalBatchProcessed
    /\ Len(disk) = 6
    /\ Len(lines) = 5
    /\ batch = 1
    /\ InFlight("loadToEndCmd") = {}
    /\ InFlight("loadToEndMsg") = {}

VerticalOps == {"up", "down", "pgup", "pgdn", "home", "end"}

\* The flags that make up the UI mode.
ModeFlags ==
    <<filterMode, filterManageMode, filterEditMode, viewMode, showPretty, showHelp>>

\* C33: every vertical move of the selection in the log (up, down, page-up,
\* page-down, Home, End) and every change of mode (entering or leaving
\* FilterEntry, FilterManage, FilterEdit, ViewEntry, Detail or Help) leaves
\* the horizontal scroll offset of the selected line at 0.
C33_MovesAndModeChangesResetScroll ==
    [][\/ op' \in VerticalOps /\ NormalMode /\ ~showHelp /\ ~showPretty
       \/ ModeFlags' # ModeFlags
       => lineScrollOffset' = 0]_vars

\* The newline-terminated lines of the bytes b.
CompleteLines(b) ==
    LET nl == {i \in 1..Len(b) : b[i] = "\n"}
    IN  IF nl = {} THEN <<>>
        ELSE ScanLines(SubSeq(b, 1, CHOOSE j \in nl : \A k \in nl : j >= k))

\* C34: whatever part of the file was on disk when the first of two polls ran,
\* the lines the two polls append are the newline-terminated lines of the
\* file, each once and with its full text: no unterminated last line is
\* appended, and a line written in two parts is not split into two entries.
C34_OnlyCompleteLinesAppended ==
    op = "checkForNewLinesTwice" => result = CompleteLines(arg.bytes)

\* C35: when down or page-down moves the cursor while the store is not fully
\* loaded and no load is in progress, and the cursor ends within
\* LoadTriggerThreshold entries of the end of the visible sequence, the key
\* event returns with a loadMore request issued, whatever filters are active.
C35_LoadRequestedNearVisibleEnd ==
    [][/\ op' \in {"down", "pgdn"}
       /\ NormalMode /\ ~showHelp /\ ~showPretty
       /\ cursor' # cursor
       /\ ~isFileFullyLoaded /\ ~loadingMoreLines
       /\ Len(getVisibleLines) - cursor' <= LoadTriggerThreshold
       => loadingMoreLines' /\ loadMoreCmd' # NoCmd]_vars

\* C36: the line is displayed as the view filter's first result: a string
\* verbatim, whatever the string; null as "null"; a boolean as "true" or
\* "false"; a number as its numeric text; an array or object as JSON, never
\* as the raw line; and the raw line is displayed when the filter fails or
\* yields nothing.
C36_ResultCoercedForDisplay ==
    op = "applyViewTransform" =>
        /\ arg.kind \in {"none", "error"} => result = "raw"
        /\ arg.kind = "string" => result = Repeat("s", arg.n)
        /\ arg.kind = "nil" => result = "null"
        /\ arg.kind = "bool" => result = (IF arg.n = 1 THEN "true" ELSE "false")
        /\ arg = GoValue("int", 1) => result = "1"
        /\ arg = GoValue("float64", -1) => result = "-1"
        /\ arg = GoValue("[]interface{}", 0) => result = "[]"
        /\ arg = GoValue("map[string]interface{}", 1) => result = "{\"k\":0}"
        /\ arg.kind \in {"int", "float64", "*big.Int", "[]interface{}",
                         "map[string]interface{}"} => result # "raw"

\* C37: in every reachable state the filter-management cursor is 0 when the
\* filter list is empty and otherwise an index of the list, so that toggle,
\* delete, edit and the commit of an edit index the list within its range.
C37_FilterCursorInRange ==
    IF filters = <<>> THEN filterCursor = 0
    ELSE filterCursor \in 0..(Len(filters) - 1)

\* A delete in the management view has left one filter, with the cursor on
\* it.
C37_Witness ==
    /\ op = "filterDelete"
    /\ filterManageMode
    /\ Len(filters) = 1
    /\ filterCursor = 0

\* C38: on a file that does not change, after the initial chunk and any
\* sequence of loadMore and loadToEnd completions, the i-th stored line has
\* the text of the i-th line of the file, and a store marked fully loaded
\* has as many lines as the file.
C38_StoreMirrorsFile ==
    /\ Len(lines) <= Len(disk)
    /\ \A i \in 1..Len(lines) : i <= Len(disk) => lines[i].RawLine = disk[i]
    /\ isFileFullyLoaded => Len(lines) = Len(disk)

\* C39: every line written after startup is appended once and in file order,
\* under any interleaving of writes, ticks, polls and newLinesMsg deliveries.
\* With fileSize the number of lines of the file accounted for so far (at
\* startup, the whole file), each newLinesMsg appends exactly the lines that
\* follow fileSize in the file, in order, and moves fileSize past those lines
\* and no further, so that no line is appended twice and none is skipped.
C39_WrittenLinesAppendedOnce ==
    [][op' = "newLinesMsg" =>
          LET k == Len(lines') - Len(lines)
          IN  /\ k >= 0
              /\ \A i \in 1..k :
                    /\ fileSize + i <= Len(disk)
                    /\ lines'[Len(lines) + i].RawLine = disk[fileSize + i]
              /\ fileSize' = fileSize + k]_vars

====
